---- MODULE Spec2Model ----
(***************************************************************************)
(* Model of the authentication and abuse-mitigation subsystem of gomvc:    *)
(* RateLimiter (src/unnamed/part_003), AuthObject (src/auth.go) and the    *)
(* login / view handlers of Controller (src/controller.go).                *)
(*                                                                         *)
(* Time is a natural-number clock `now`; time.Time{} (the zero time) is 0  *)
(* and the clock starts at 1, so a real instant is never the zero value.   *)
(* attemptRecord.FirstAttempt is written by RecordFailedAttempt and read   *)
(* by no operation of the repository; it is not part of the state.         *)
(***************************************************************************)
EXTENDS Integers, Sequences, FiniteSets, TLC

\* ---------------------------------------------------------------- bounds
MaxTime == 3
MaxTimeRL == 6
MaxM == 2

\* MaxCount caps attemptRecord.Count so the state space is finite.
MaxCount == MaxM + 1

\* ------------------------------------------------------ configuration
\* RateLimiter.BlockDuration and AuthObject.ExpireAfterIdle, in clock ticks.
\* The login handlers are exercised up to MaxTime, the limiter alone up to
\* MaxTimeRL, which lets a block expire and the sweep remove its record.
BlockDuration == 2
ExpireAfterIdle == 1

ZeroTime == 0

Limiters == {"ip", "user"}
IPs == {"ip1"}
Usernames == {"alice", "eve"}
Sessions == {"s1"}

\* The identifiers each limiter instance is used with.
Idents(lim) == IF lim = "ip" THEN IPs ELSE Usernames

\* No query has been compiled.
NoQuery == [intent |-> <<>>]

\* A blank value of a snapshot; a value v that is not blank is <<v>>.
Blank == <<>>

\* Auth.UserData before any login.
NoUserData == [Username |-> Blank, HashCode |-> Blank, Password |-> Blank]

\* The goroutines that call one limiter concurrently.
Procs == {"g1", "g2", "g3"}

\* A goroutine that is in no call. pc: where the call stands; op, id: the
\* method and its identifier; tmp: the Count it read for Count++; torn: its
\* read saw a record between Count++ and the check against MaxAttempts.
Idle == [pc |-> "idle", op |-> "", id |-> "", tmp |-> 0, torn |-> FALSE]

VARIABLES
    now,          \* time.Now()
    attempts,     \* attempts[lim]: RateLimiter.attempts of c.IPRateLimiter / c.UserRateLimiter
    MaxAttempts,  \* MaxAttempts[lim]: RateLimiter.MaxAttempts; 0 = the limiter pointer is nil
    db,           \* the credentials table behind Auth.Model: row id -> row
    sessions,     \* the session store: sessions[s] is the token under Auth.SessionKey
    streak,       \* history: RecordFailedAttempt calls per identifier since it had no record
    last,         \* history: the operation that ran last, its inputs and what it did
    calls,        \* calls[p]: the RateLimiter call goroutine p is in, and where it stands
    query,        \* the query intent handed to the compilers and what they returned
    UserData      \* Auth.UserData: the process-wide snapshot of the row that logged in last

vars == <<now, attempts, MaxAttempts, db, sessions, streak, last, calls, query, UserData>>

\* ------------------------------------------------------------ RateLimiter
\* attempts is a map: a function whose DOMAIN is the set of tracked identifiers.
Record(c, b) == [Count |-> c, BlockedUntil |-> b]

Put(att, id, rec) == [x \in (DOMAIN att) \cup {id} |-> IF x = id THEN rec ELSE att[x]]

Delete(att, id) == [x \in (DOMAIN att) \ {id} |-> att[x]]

\* time.Time.Before / After / IsZero
Before(t, u) == t < u
After(t, u) == t > u
IsZero(t) == t = ZeroTime

IsBlocked_early(att, id, t) ==
    IF id \notin DOMAIN att
    THEN FALSE
    ELSE Before(t + 1, att[id].BlockedUntil)

IsBlocked_inclusive(att, id, t) ==
    IF id \notin DOMAIN att
    THEN FALSE
    ELSE ~After(t, att[id].BlockedUntil)

IsBlocked(att, id, t) ==
    IF id \notin DOMAIN att
    THEN FALSE
    ELSE Before(t, att[id].BlockedUntil)

RecordFailedAttempt(att, id, t, max) ==
    IF id \notin DOMAIN att
    THEN Put(att, id, Record(1, ZeroTime))
    ELSE IF ~IsZero(att[id].BlockedUntil) /\ After(t, att[id].BlockedUntil)
    THEN Put(att, id, Record(1, ZeroTime))
    ELSE LET c == att[id].Count + 1
         IN  IF c >= max
             THEN Put(att, id, Record(c, t + BlockDuration))
             ELSE Put(att, id, Record(c, att[id].BlockedUntil))

ResetAttempts_keep(att, id) == att

ResetAttempts_all(att, id) == [x \in {} |-> Record(0, ZeroTime)]

ResetAttempts_count(att, id) ==
    IF id \in DOMAIN att THEN Put(att, id, Record(0, att[id].BlockedUntil)) ELSE att

ResetAttempts(att, id) == Delete(att, id)

GetRemainingAttempts(att, id, max) ==
    IF id \notin DOMAIN att
    THEN max
    ELSE IF max - att[id].Count < 0 THEN 0 ELSE max - att[id].Count

GetBlockedUntil(att, id) ==
    IF id \notin DOMAIN att THEN ZeroTime ELSE att[id].BlockedUntil

cleanup_noWait(att, t) ==
    [x \in {y \in DOMAIN att : IsZero(att[y].BlockedUntil)} |-> att[x]]
cleanup(att, t) ==
    LET dead == {x \in DOMAIN att :
                    ~IsZero(att[x].BlockedUntil)
                    /\ After(t, att[x].BlockedUntil + BlockDuration)}
    IN  [x \in (DOMAIN att) \ dead |-> att[x]]


\* ------------------------------------------------- credentials and sessions
\* Auth.SessionKey, Auth.LoginFailMessage and the NextURL of the login route,
\* as an application configures them.
SessionKey == "auth"
LoginFailMessage == "Login failed"
NextURL == "/home"
TooManyMessage == "Too many failed attempts. Please try again later."

NoToken == 0

\* bcrypt: a hash is made from one password and matches that password only.
HashPassword(password) == [bcrypt |-> password]

CheckPasswordHash(password, hash) == hash = HashPassword(password)

\* The fixed hash compared when no row was found; it was generated from "dummy".
DummyHash == HashPassword("dummy")

\* Submitted form values; "" is a missing field.
FormUsernames == Usernames \cup {""}
FormPasswords == {"pwA", "dummy", ""}

\* Auth.ExtraConditions: one static condition, active = 1.
ExtraConditions(row) == row.Active

\* Model.GetRecords(f, 1) with f = username filter AND ExtraConditions.
GetRecordsByUsername(dbv, username) ==
    {id \in DOMAIN dbv : dbv[id].Username = username /\ ExtraConditions(dbv[id])}

\* Model.GetRecords(f, 1) with f = hash-code filter AND ExtraConditions.
GetRecordsByToken(dbv, token) ==
    {id \in DOMAIN dbv : dbv[id].HashCode = token /\ ExtraConditions(dbv[id])}

\* rr[0] of a non-empty result.
FirstRow(ids) == CHOOSE id \in ids : \A j \in ids : id <= j

GetExpirationFromNow(t) == t + ExpireAfterIdle

\* Auth.TokenGenerator: 64 random bytes, so a value that no row and no session
\* holds; the least such number stands for it.
TokenGenerator_fixed(dbv, sess) == 1
TokenGenerator(dbv, sess) ==
    LET held == {dbv[id].HashCode : id \in DOMAIN dbv} \cup {sess[s] : s \in DOMAIN sess}
    IN  CHOOSE n \in 1..(Cardinality(held) + 1) :
            n \notin held /\ \A m \in 1..(n - 1) : m \in held

\* Model.Update of the expiry column / of the hash-code and expiry columns.
UpdateExpTime(dbv, id, exp) == [dbv EXCEPT ![id].ExpTime = exp]

UpdateToken_expOnly(dbv, id, token, exp) == [dbv EXCEPT ![id].ExpTime = exp]

UpdateToken(dbv, id, token, exp) ==
    [dbv EXCEPT ![id].HashCode = token, ![id].ExpTime = exp]

IsSessionExpired_noIdle(dbv, token, t, lookupErr, updateErr) ==
    IF SessionKey = "" THEN [expired |-> TRUE, err |-> FALSE, db |-> dbv]
    ELSE IF token = NoToken THEN [expired |-> TRUE, err |-> FALSE, db |-> dbv]
    ELSE IF lookupErr THEN [expired |-> TRUE, err |-> TRUE, db |-> dbv]
    ELSE LET user_rr == GetRecordsByToken(dbv, token)
         IN  IF user_rr # {}
             THEN [expired |-> FALSE, err |-> FALSE,
                   db |-> IF updateErr THEN dbv
                          ELSE UpdateExpTime(dbv, FirstRow(user_rr), GetExpirationFromNow(t))]
             ELSE [expired |-> TRUE, err |-> FALSE, db |-> dbv]

\* AuthObject.IsSessionExpired for a session holding token (NoToken: the key
\* does not exist), at time t. lookupErr / updateErr: the GetRecords / Update
\* call fails. The result is (expired, err) and the table afterwards.
IsSessionExpired(dbv, token, t, lookupErr, updateErr) ==
    IF SessionKey = "" THEN [expired |-> TRUE, err |-> FALSE, db |-> dbv]
    ELSE IF token = NoToken THEN [expired |-> TRUE, err |-> FALSE, db |-> dbv]
    ELSE IF lookupErr THEN [expired |-> TRUE, err |-> TRUE, db |-> dbv]
    ELSE LET user_rr == GetRecordsByToken(dbv, token)
         IN  IF user_rr # {}
             THEN LET id == FirstRow(user_rr)
                  IN  IF After(t, dbv[id].ExpTime)
                      THEN [expired |-> TRUE, err |-> FALSE, db |-> dbv]
                      ELSE [expired |-> FALSE, err |-> FALSE,
                            db |-> IF updateErr THEN dbv
                                   ELSE UpdateExpTime(dbv, id, GetExpirationFromNow(t))]
             ELSE [expired |-> TRUE, err |-> FALSE, db |-> dbv]

\* Controller.viewAction for a session holding token. needsAuth is the route's
\* option. The first IsSessionExpired (e1, u1) guards the route, the second
\* (e2, u2) fills TemplateData.AuthExpired and its error is dropped. Fetching
\* the records and executing the template are taken to succeed.
viewAction(dbv, token, t, needsAuth, e1, u1, e2, u2) ==
    LET r1 == IF needsAuth /\ SessionKey # ""
              THEN IsSessionExpired(dbv, token, t, e1, u1)
              ELSE [expired |-> FALSE, err |-> FALSE, db |-> dbv]
    IN  IF r1.err
        THEN [db |-> r1.db, expired |-> r1.expired, err |-> TRUE,
              redirected |-> FALSE, rendered |-> FALSE]
        ELSE LET r2 == IsSessionExpired(r1.db, token, t, e2, u2)
             IN  [db |-> r2.db, expired |-> r1.expired, err |-> FALSE,
                  redirected |-> r1.expired, rendered |-> TRUE]

\* ------------------------------------------------------------- history
\* op: the operation; id, ret: the identifier and the result of a limiter call
\* (for a successful login, ret counts the limiter records it removed);
\* s, ip, user, pw: the request of a handler; path: the branch the handler
\* took; lookups: credential lookups issued; compared: the hashes handed to
\* CheckPasswordHash; shown: the error message the redisplayed view shows;
\* expired, err: what IsSessionExpired / the handler returned.
NoEvent ==
    [op |-> "init", id |-> "", ret |-> 0,
     s |-> "", ip |-> "", user |-> "", pw |-> "", path |-> "",
     lookups |-> 0, compared |-> <<>>, shown |-> "", expired |-> FALSE, err |-> FALSE]

StreakCap == MaxM + 1

Bump(n) == IF n < StreakCap THEN n + 1 ELSE StreakCap

\* streak[lim] after the attempts map of limiter lim became att2 by calling
\* RecordFailedAttempt for the identifiers in recorded: an identifier without
\* a record has streak 0.
StreakAfter(lim, att2, recorded) ==
    [x \in Idents(lim) |->
        IF x \notin DOMAIN att2 THEN 0
        ELSE IF x \in recorded THEN Bump(streak[lim][x])
        ELSE streak[lim][x]]

EmptyMap == [x \in {} |-> 0]

\* ---------------------------------------------- RateLimiter, called directly
\* The limiter instance the direct calls go to, and its identifiers.
RL == "user"

InitRL ==
    /\ now = 1
    /\ attempts = [l \in Limiters |-> EmptyMap]
    /\ \E m \in 1..MaxM : MaxAttempts = [l \in Limiters |-> IF l = RL THEN m ELSE 0]
    /\ db = EmptyMap
    /\ sessions = [s \in Sessions |-> NoToken]
    /\ streak = [l \in Limiters |-> [x \in Idents(l) |-> 0]]
    /\ last = NoEvent
    /\ calls = [p \in Procs |-> Idle]
    /\ UserData = NoUserData
    /\ query = NoQuery

TickRL ==
    /\ now < MaxTimeRL
    /\ now' = now + 1
    /\ last' = [NoEvent EXCEPT !.op = "tick"]
    /\ UNCHANGED <<attempts, MaxAttempts, db, sessions, streak, calls, query, UserData>>

CallIsBlocked(id) ==
    /\ last' = [NoEvent EXCEPT !.op = "IsBlocked", !.id = id,
                               !.ret = IF IsBlocked(attempts[RL], id, now) THEN 1 ELSE 0]
    /\ UNCHANGED <<now, attempts, MaxAttempts, db, sessions, streak, calls, query, UserData>>

CallRecordFailedAttempt(id) ==
    /\ id \in DOMAIN attempts[RL] => attempts[RL][id].Count < MaxCount
    /\ LET att2 == RecordFailedAttempt(attempts[RL], id, now, MaxAttempts[RL])
       IN  /\ attempts' = [attempts EXCEPT ![RL] = att2]
           /\ streak' = [streak EXCEPT ![RL] = StreakAfter(RL, att2, {id})]
    /\ last' = [NoEvent EXCEPT !.op = "RecordFailedAttempt", !.id = id]
    /\ UNCHANGED <<now, MaxAttempts, db, sessions, calls, query, UserData>>

\* The state of id's record at time t: 0 no record, 1 accumulating, 2 blocked,
\* 3 a block that is no longer in force.
RecordState(att, id, t) ==
    IF id \notin DOMAIN att THEN 0
    ELSE IF IsZero(att[id].BlockedUntil) THEN 1
    ELSE IF Before(t, att[id].BlockedUntil) THEN 2
    ELSE 3

\* ret: the state of the record the call found.
CallResetAttempts(id) ==
    /\ LET att2 == ResetAttempts(attempts[RL], id)
       IN  /\ attempts' = [attempts EXCEPT ![RL] = att2]
           /\ streak' = [streak EXCEPT ![RL] = StreakAfter(RL, att2, {})]
    /\ last' = [NoEvent EXCEPT !.op = "ResetAttempts", !.id = id,
                               !.ret = RecordState(attempts[RL], id, now)]
    /\ UNCHANGED <<now, MaxAttempts, db, sessions, calls, query, UserData>>

CallGetRemainingAttempts(id) ==
    /\ last' = [NoEvent EXCEPT !.op = "GetRemainingAttempts", !.id = id,
                               !.ret = GetRemainingAttempts(attempts[RL], id, MaxAttempts[RL])]
    /\ UNCHANGED <<now, attempts, MaxAttempts, db, sessions, streak, calls, query, UserData>>

\* One firing of the ticker in cleanupLoop of limiter lim.
cleanupLoop(lim) ==
    /\ MaxAttempts[lim] > 0
    /\ LET att2 == cleanup(attempts[lim], now)
       IN  /\ attempts' = [attempts EXCEPT ![lim] = att2]
           /\ streak' = [streak EXCEPT ![lim] = StreakAfter(lim, att2, {})]
    /\ last' = [NoEvent EXCEPT !.op = "cleanup"]
    /\ UNCHANGED <<now, MaxAttempts, db, sessions, calls, query, UserData>>

NextRL ==
    \/ TickRL
    \/ \E id \in Idents(RL) : CallIsBlocked(id)
    \/ \E id \in Idents(RL) : CallRecordFailedAttempt(id)
    \/ \E id \in Idents(RL) : CallResetAttempts(id)
    \/ \E id \in Idents(RL) : CallGetRemainingAttempts(id)
    \/ cleanupLoop(RL)

SpecRL == InitRL /\ [][NextRL]_vars

\* ------------------------------------------------------------------ C1
\* C1: for every MaxAttempts M >= 1 and identifier x without a record, after k
\* consecutive RecordFailedAttempt(x) calls IsBlocked(x) is false for k < M and
\* true immediately after the M-th call.
C1_Threshold ==
    \A x \in Idents(RL) :
        LET k == streak[RL][x]
            M == MaxAttempts[RL]
        IN  /\ (1 <= k /\ k < M) => ~IsBlocked(attempts[RL], x, now)
            /\ (k = M /\ last.op = "RecordFailedAttempt" /\ last.id = x)
                    => IsBlocked(attempts[RL], x, now)

\* The statement of C1 for MaxAttempts >= 2 only.
ThresholdFromTwo ==
    MaxAttempts[RL] >= 2 => C1_Threshold

\* ------------------------------------------------------------- Controller
Row(username, password, active) ==
    [Username |-> username, Password |-> HashPassword(password),
     HashCode |-> NoToken, ExpTime |-> ZeroTime, Active |-> active]

\* After Controller.Initialize and RegisterAuthAction: either limiter may be
\* configured (MaxAttempts > 0) or left nil; the credentials table holds one
\* user, who may or may not satisfy the extra conditions.
Init ==
    /\ now = 1
    /\ attempts = [l \in Limiters |-> EmptyMap]
    /\ MaxAttempts \in [Limiters -> 0..MaxM]
    /\ \E active \in BOOLEAN : db = [id \in {1} |-> Row("alice", "pwA", active)]
    /\ sessions = [s \in Sessions |-> NoToken]
    /\ streak = [l \in Limiters |-> [x \in Idents(l) |-> 0]]
    /\ last = NoEvent
    /\ calls = [p \in Procs |-> Idle]
    /\ UserData = NoUserData
    /\ query = NoQuery

Tick ==
    /\ now < MaxTime
    /\ now' = now + 1
    /\ last' = [NoEvent EXCEPT !.op = "tick"]
    /\ UNCHANGED <<attempts, MaxAttempts, db, sessions, streak, calls, query, UserData>>

\* limiter.RecordFailedAttempt(id) / ResetAttempts(id) behind the nil check.
RecordIfConfigured_ipOnly(att, lim, id, t) ==
    IF MaxAttempts[lim] > 0 /\ lim = "ip"
    THEN [att EXCEPT ![lim] = RecordFailedAttempt(att[lim], id, t, MaxAttempts[lim])]
    ELSE att

RecordIfConfigured(att, lim, id, t) ==
    IF MaxAttempts[lim] > 0
    THEN [att EXCEPT ![lim] = RecordFailedAttempt(att[lim], id, t, MaxAttempts[lim])]
    ELSE att

ResetIfConfigured(att, lim, id) ==
    IF MaxAttempts[lim] > 0
    THEN [att EXCEPT ![lim] = ResetAttempts(att[lim], id)]
    ELSE att

\* Session.Put(ctx, "error", ...) calls of the branches of authAction; a later
\* Put replaces the value of an earlier one.
PutLoginFailMessage(current) ==
    IF LoginFailMessage # "" THEN LoginFailMessage ELSE current

ErrorBlockedIP == TooManyMessage

LoginAccepted_rowOnly(userExists, passwordValid) == userExists

\* The decision of authAction after the hash comparison.
LoginAccepted(userExists, passwordValid) == userExists /\ passwordValid

HashesCompared_knownOnly(userExists, storedPasswordHash) ==
    IF userExists THEN <<storedPasswordHash>> ELSE <<>>

\* The hashes authAction hands to CheckPasswordHash, in order.
HashesCompared(userExists, storedPasswordHash) ==
    IF userExists THEN <<storedPasswordHash>> ELSE <<DummyHash>>

\* Auth.UserData when a successful login of username has returned: the row
\* with its hash code and its password blanked.
Scrubbed(username) == [Username |-> <<username>>, HashCode |-> Blank, Password |-> Blank]

\* The end of a handler: the new state, with the caps that keep it finite.
Commit(att2, db2, sessions2, now2, recorded, ev) ==
    /\ now2 <= MaxTime
    /\ \A l \in Limiters : \A x \in DOMAIN att2[l] : att2[l][x].Count <= MaxCount
    /\ attempts' = att2
    /\ db' = db2
    /\ sessions' = sessions2
    /\ now' = now2
    /\ streak' = [l \in Limiters |-> StreakAfter(l, att2[l], recorded[l])]
    /\ last' = ev
    /\ UserData' = IF ev.op = "auth" /\ ev.path = "success"
                   THEN Scrubbed(ev.user) ELSE UserData
    /\ UNCHANGED <<MaxAttempts, calls, query>>

NoneRecorded == [l \in Limiters |-> {}]

\* What one viewAction call can leave behind, over the outcomes of its
\* database calls.
ViewOutcomes(dbv, token, t, needsAuth) ==
    {viewAction(dbv, token, t, needsAuth, e1, u1, e2, u2) :
        e1 \in IF needsAuth THEN BOOLEAN ELSE {FALSE},
        u1 \in IF needsAuth THEN BOOLEAN ELSE {FALSE},
        e2 \in BOOLEAN, u2 \in BOOLEAN}

\* time.Sleep of a failure branch: the clock ticks that pass meanwhile.
Slept == 0..1

\* Controller.authAction: a POST of (username, password) to the login URL from
\* client ip with session s. The credential lookup and the Update of the row
\* each either fail or succeed.
authAction(s, ip, username, password) ==
    LET ev == [NoEvent EXCEPT !.op = "auth", !.s = s, !.ip = ip,
                              !.user = username, !.pw = password]
    IN
    IF MaxAttempts["ip"] > 0 /\ IsBlocked(attempts["ip"], ip, now)
    THEN \* blocked IP
         \E slept \in Slept : \E v \in ViewOutcomes(db, sessions[s], now + slept, FALSE) :
            Commit(attempts, v.db, sessions, now + slept, NoneRecorded,
                   [ev EXCEPT !.path = "ipBlocked", !.shown = ErrorBlockedIP])
    ELSE IF username = "" \/ password = ""
    THEN \* missing credentials
         \E slept \in Slept : \E v \in ViewOutcomes(db, sessions[s], now + slept, FALSE) :
            Commit(attempts, v.db, sessions, now + slept, NoneRecorded,
                   [ev EXCEPT !.path = "missing", !.shown = PutLoginFailMessage("")])
    ELSE IF MaxAttempts["user"] > 0 /\ IsBlocked(attempts["user"], username, now)
    THEN \* blocked username
         LET att2 == RecordIfConfigured(attempts, "ip", ip, now)
         IN  \E slept \in Slept : \E v \in ViewOutcomes(db, sessions[s], now + slept, FALSE) :
                Commit(att2, v.db, sessions, now + slept,
                       [NoneRecorded EXCEPT !["ip"] = {ip}],
                       [ev EXCEPT !.path = "userBlocked", !.shown = PutLoginFailMessage("")])
    ELSE
    \/ \* the lookup fails: ServerError
       Commit(attempts, db, sessions, now, NoneRecorded,
              [ev EXCEPT !.path = "lookupErr", !.lookups = 1, !.err = TRUE])
    \/ LET rr == GetRecordsByUsername(db, username)
           userExists == rr # {}
           storedPasswordHash == IF userExists THEN db[FirstRow(rr)].Password ELSE DummyHash
           compared == HashesCompared(userExists, storedPasswordHash)
           passwordValid == CheckPasswordHash(password, storedPasswordHash)
           ev2 == [ev EXCEPT !.lookups = 1, !.compared = compared]
       IN
       IF LoginAccepted(userExists, passwordValid)
       THEN \* success
            LET att2 == ResetIfConfigured(ResetIfConfigured(attempts, "ip", ip),
                                          "user", username)
                token == TokenGenerator(db, sessions)
                exp == GetExpirationFromNow(now)
            IN  \/ \* the Update fails: ServerError
                   Commit(att2, db, sessions, now, NoneRecorded,
                          [ev2 EXCEPT !.path = "updateErr", !.err = TRUE])
                \/ LET db2 == UpdateToken(db, FirstRow(rr), token, exp)
                       sessions2 == [sessions EXCEPT ![s] = token]
                       first == IF NextURL # "" THEN {[db |-> db2]}
                                ELSE ViewOutcomes(db2, token, now, FALSE)
                   IN  \E v1 \in first : \E v2 \in ViewOutcomes(v1.db, token, now, FALSE) :
                          Commit(att2, v2.db, sessions2, now, NoneRecorded,
                                 [ev2 EXCEPT !.path = "success",
                                             !.ret = Cardinality(DOMAIN attempts["ip"] \cap {ip})
                                                   + Cardinality(DOMAIN attempts["user"] \cap {username})])
       ELSE \* failure
            LET att2 == RecordIfConfigured(RecordIfConfigured(attempts, "ip", ip, now),
                                           "user", username, now)
            IN  \E slept \in Slept : \E v \in ViewOutcomes(db, sessions[s], now + slept, FALSE) :
                   Commit(att2, v.db, sessions, now + slept,
                          [l \in Limiters |-> IF l = "ip" THEN {ip} ELSE {username}],
                          [ev2 EXCEPT !.path = "fail", !.shown = PutLoginFailMessage("")])

\* A GET handled by Controller.viewAction for session s: the login page
\* (needsAuth = FALSE) or a route registered with NeedsAuth.
GetPage(s, needsAuth) ==
    \E v \in ViewOutcomes(db, sessions[s], now, needsAuth) :
        Commit(attempts, v.db, sessions, now, NoneRecorded,
               [NoEvent EXCEPT !.op = "view", !.s = s,
                               !.path = IF needsAuth THEN "protected" ELSE "login",
                               !.expired = v.expired, !.err = v.err])

Next ==
    \/ Tick
    \/ \E s \in Sessions, ip \in IPs, username \in FormUsernames, password \in FormPasswords :
            authAction(s, ip, username, password)
    \/ \E s \in Sessions, needsAuth \in BOOLEAN : GetPage(s, needsAuth)
    \/ \E lim \in Limiters : cleanupLoop(lim)

Spec == Init /\ [][Next]_vars

\* ---------------------------------------------------------------- claims
\* What the claims say of a request, in terms of the state before it.
BlockedNow(lim, id) ==
    /\ MaxAttempts[lim] > 0
    /\ id \in DOMAIN attempts[lim]
    /\ now < attempts[lim][id].BlockedUntil

\* A row for username that satisfies the extra conditions and whose stored
\* hash was made from password.
CredentialsMatch(username, password) ==
    \E id \in DOMAIN db :
        /\ db[id].Username = username
        /\ db[id].Active
        /\ db[id].Password = HashPassword(password)

RowExists(username) ==
    \E id \in DOMAIN db : db[id].Username = username /\ db[id].Active

TokensUnchanged ==
    /\ sessions' = sessions
    /\ \A id \in DOMAIN db : db'[id].HashCode = db[id].HashCode

\* att2 is att with exactly one more failed attempt for id, and nothing else.
OneMoreAttempt(att, att2, id, t) ==
    /\ DOMAIN att2 = (DOMAIN att) \cup {id}
    /\ \A x \in (DOMAIN att) \ {id} : att2[x] = att[x]
    /\ att2[id].Count =
          IF id \in DOMAIN att /\ ~(att[id].BlockedUntil # ZeroTime /\ t > att[id].BlockedUntil)
          THEN att[id].Count + 1
          ELSE 1

\* C2: with a username limiter of MaxAttempts M, right after M consecutive
\* failed logins for a username the next login for it, from an IP that is not
\* blocked and with any password, is rejected by IsBlocked alone: no credential
\* lookup, no hash comparison, the username record unchanged, one failed
\* attempt recorded for the IP.
C2_BlockedUsername ==
    [][ ( /\ last.op = "auth" /\ last.path = "fail"
          /\ MaxAttempts["user"] > 0
          /\ streak["user"][last.user] = MaxAttempts["user"]
          /\ last'.op = "auth" /\ last'.user = last.user /\ last'.pw # ""
          /\ ~BlockedNow("ip", last'.ip) )
        => ( /\ last'.path = "userBlocked"
             /\ last'.lookups = 0
             /\ last'.compared = <<>>
             /\ attempts'["user"] = attempts["user"]
             /\ MaxAttempts["ip"] > 0 =>
                    OneMoreAttempt(attempts["ip"], attempts'["ip"], last'.ip, now)
             /\ MaxAttempts["ip"] = 0 => attempts'["ip"] = attempts["ip"] )
      ]_vars

\* The statement of C2 for MaxAttempts >= 2 only.
BlockedUsernameFromTwo ==
    [][ ( /\ last.op = "auth" /\ last.path = "fail"
          /\ MaxAttempts["user"] > 1
          /\ streak["user"][last.user] = MaxAttempts["user"]
          /\ last'.op = "auth" /\ last'.user = last.user /\ last'.pw # ""
          /\ ~BlockedNow("ip", last'.ip) )
        => ( /\ last'.path = "userBlocked"
             /\ last'.lookups = 0
             /\ last'.compared = <<>>
             /\ attempts'["user"] = attempts["user"]
             /\ MaxAttempts["ip"] > 0 =>
                    OneMoreAttempt(attempts["ip"], attempts'["ip"], last'.ip, now)
             /\ MaxAttempts["ip"] = 0 => attempts'["ip"] = attempts["ip"] )
      ]_vars

\* C3: a login from an IP that is blocked when authAction starts fails before
\* anything else happens: no credential lookup, no hash comparison, no change
\* of either limiter, no session token stored, whatever was submitted.
C3_BlockedIP ==
    [][ (last'.op = "auth" /\ BlockedNow("ip", last'.ip))
        => ( /\ last'.path = "ipBlocked"
             /\ last'.lookups = 0
             /\ last'.compared = <<>>
             /\ attempts' = attempts
             /\ TokensUnchanged )
      ]_vars

\* The correct credentials were submitted from a blocked IP and turned away.
C3_Witness ==
    /\ last.op = "auth" /\ last.path = "ipBlocked"
    /\ last.user = "alice" /\ last.pw = "pwA"
    /\ db[1].Active
    /\ BlockedNow("ip", last.ip)

\* C4: authAction stores a session token, writes a token into the credentials
\* row or resets a limiter only if the lookup returned a row and the submitted
\* password matches that row's stored hash; an unknown username never succeeds,
\* not even with the password of the dummy hash.
C4_SuccessCondition ==
    [][ ( /\ last'.op = "auth"
          /\ \/ ~TokensUnchanged
             \/ \E l \in Limiters : ~((DOMAIN attempts[l]) \subseteq DOMAIN attempts'[l])
             \/ last'.path = "success" )
        => CredentialsMatch(last'.user, last'.pw)
      ]_vars

\* An unknown username was submitted with the password of the dummy hash, the
\* comparison ran against the dummy hash, and the login failed.
C4_Witness ==
    /\ last.op = "auth" /\ last.user = "eve" /\ last.pw = "dummy"
    /\ last.compared = <<DummyHash>>
    /\ CheckPasswordHash(last.pw, DummyHash)
    /\ last.path = "fail"
    /\ \A s \in Sessions : sessions[s] = NoToken

C6_GenericFailure ==
    (last.op = "auth" /\ last.path \in {"ipBlocked", "missing", "userBlocked", "fail"})
    => last.shown = LoginFailMessage

\* C7: a login that gets past the lookup and fails (no row, or hash mismatch)
\* records exactly one failed attempt for the IP and one for the username, on
\* each configured limiter, and stores no session token.
C7_FailureAccounting ==
    [][ ( /\ last'.op = "auth" /\ last'.lookups = 1 /\ last'.path # "lookupErr"
          /\ ~CredentialsMatch(last'.user, last'.pw) )
        => ( /\ MaxAttempts["ip"] > 0 =>
                    OneMoreAttempt(attempts["ip"], attempts'["ip"], last'.ip, now)
             /\ MaxAttempts["user"] > 0 =>
                    OneMoreAttempt(attempts["user"], attempts'["user"], last'.user, now)
             /\ \A l \in Limiters : MaxAttempts[l] = 0 => attempts'[l] = attempts[l]
             /\ TokensUnchanged )
      ]_vars

\* A wrong password for an existing user failed with both limiters configured.
C7_Witness ==
    /\ last.op = "auth" /\ last.path = "fail"
    /\ last.user = "alice" /\ RowExists("alice")
    /\ MaxAttempts["ip"] > 0 /\ MaxAttempts["user"] > 0
    /\ last.ip \in DOMAIN attempts["ip"]
    /\ "alice" \in DOMAIN attempts["user"]

\* C8: after a successful login for (clientIP, username) the IP limiter holds
\* no record for clientIP and the username limiter none for username, whatever
\* they held before; the records of every other identifier are unchanged.
C8_SuccessResets ==
    [][ (last'.op = "auth" /\ sessions'[last'.s] # sessions[last'.s])
        => ( /\ last'.ip \notin DOMAIN attempts'["ip"]
             /\ last'.user \notin DOMAIN attempts'["user"]
             /\ DOMAIN attempts'["ip"] = (DOMAIN attempts["ip"]) \ {last'.ip}
             /\ DOMAIN attempts'["user"] = (DOMAIN attempts["user"]) \ {last'.user}
             /\ \A l \in Limiters : \A x \in DOMAIN attempts'[l] :
                    attempts'[l][x] = attempts[l][x] )
      ]_vars

\* A successful login removed a record from both limiters and left the record
\* of another username in place.
C8_Witness ==
    /\ last.op = "auth" /\ last.path = "success" /\ last.ret = 2
    /\ last.user = "alice"
    /\ "eve" \in DOMAIN attempts["user"]
    /\ "alice" \notin DOMAIN attempts["user"]
    /\ last.ip \notin DOMAIN attempts["ip"]

\* C9: after a successful login the token in the session store equals the
\* hash code persisted in the authenticated row and the row's expiry is the
\* login time + ExpireAfterIdle; when persisting the row fails, no token is
\* put in the session store.
C9_TokenConsistency ==
    [][ /\ (last'.op = "auth" /\ last'.path = "success")
            => \E id \in DOMAIN db :
                    /\ db[id].Username = last'.user
                    /\ sessions'[last'.s] # NoToken
                    /\ sessions'[last'.s] = db'[id].HashCode
                    /\ db'[id].ExpTime = now + ExpireAfterIdle
        /\ (last'.op = "auth" /\ last'.path = "updateErr")
            => sessions' = sessions /\ db' = db
      ]_vars

\* A login succeeded and its session holds the token of the row.
C9_Witness ==
    /\ last.op = "auth" /\ last.path = "success"
    /\ sessions[last.s] # NoToken
    /\ sessions[last.s] = db[1].HashCode

\* C10: IsSessionExpired returns expired = true whenever the session holds no
\* token, no row matches the token and the extra conditions, or the time is
\* after the row's expiry; it returns false only when a matching row exists
\* whose expiry is not before now; a lookup error yields (true, error).
C10_SessionExpiry ==
    [][ (last'.op = "view" /\ last'.path = "protected")
        => LET token == sessions[last'.s]
               rows == {id \in DOMAIN db : db[id].HashCode = token /\ db[id].Active}
           IN  /\ ( \/ token = NoToken
                    \/ rows = {}
                    \/ \E id \in rows : now > db[id].ExpTime ) => last'.expired
               /\ ~last'.expired => \E id \in rows : ~(db[id].ExpTime < now)
               /\ last'.err => last'.expired
      ]_vars

\* A session whose row's expiry has passed was found expired, without error.
C10_Witness ==
    /\ last.op = "view" /\ last.path = "protected"
    /\ last.expired /\ ~last.err
    /\ sessions[last.s] # NoToken
    /\ \E id \in DOMAIN db : db[id].HashCode = sessions[last.s] /\ db[id].ExpTime < now

\* The rows that IsSessionExpired looks up for session s.
SessionRows(s) ==
    {id \in DOMAIN db : db[id].HashCode = sessions[s] /\ ExtraConditions(db[id])}

\* C11: every IsSessionExpired call that finds the session not expired sets
\* the matching row's expiry to now + ExpireAfterIdle and persists it; a call
\* that finds the session expired leaves the row unchanged. Stated on a view
\* of a protected route, whose IsSessionExpired calls all run at time now.
C11_SlidingExpiration ==
    [][ (last'.op = "view" /\ last'.path = "protected" /\ ~last'.err)
        => /\ ~last'.expired =>
                \A id \in SessionRows(last'.s) :
                    db'[id].ExpTime = GetExpirationFromNow(now)
           /\ last'.expired => db' = db
      ]_vars

\* What holds of C11 whether or not the Update of the expiry goes through: the
\* row's expiry is the new one or the old one, and an expired session's row is
\* left alone.
SlidingOrUnchanged ==
    [][ (last'.op = "view" /\ last'.path = "protected" /\ ~last'.err)
        => /\ ~last'.expired =>
                \A id \in SessionRows(last'.s) :
                    db'[id].ExpTime \in {GetExpirationFromNow(now), db[id].ExpTime}
           /\ last'.expired => db' = db
      ]_vars

\* -------------------------------------------------- session kill (logout)
\* AuthObject.KillAuthSession for a session holding token, at time t. The row
\* is looked up by token alone; user_rr[0] is read without a length check, so
\* an empty result panics. time.Now().UTC().Add(-1) is the instant just before
\* t. The results of the Update are discarded.
KillAuthSession(dbv, token, t, lookupErr, updateErr) ==
    IF SessionKey = "" \/ token = NoToken
    THEN [db |-> dbv, err |-> FALSE, path |-> "noSession"]
    ELSE IF lookupErr THEN [db |-> dbv, err |-> TRUE, path |-> "lookupErr"]
    ELSE LET user_rr == {id \in DOMAIN dbv : dbv[id].HashCode = token}
         IN  IF user_rr = {}
             THEN [db |-> dbv, err |-> FALSE, path |-> "panic"]
             ELSE [db |-> IF updateErr THEN dbv
                          ELSE UpdateExpTime(dbv, FirstRow(user_rr), t - 1),
                   err |-> FALSE, path |-> "killed"]

\* A handler of the application calls Auth.KillAuthSession for session s.
CallKillAuthSession(s) ==
    \E lookupErr \in BOOLEAN, updateErr \in BOOLEAN :
        LET k == KillAuthSession(db, sessions[s], now, lookupErr, updateErr)
        IN  Commit(attempts, k.db, sessions, now, NoneRecorded,
                   [NoEvent EXCEPT !.op = "kill", !.s = s, !.path = k.path,
                                   !.err = k.err])

\* Sessions without rate limiting: login, page views, logout.
InitSession == Init /\ \A l \in Limiters : MaxAttempts[l] = 0

NextSession ==
    \/ Tick
    \/ \E s \in Sessions, ip \in IPs, username \in FormUsernames, password \in FormPasswords :
            authAction(s, ip, username, password)
    \/ \E s \in Sessions, needsAuth \in BOOLEAN : GetPage(s, needsAuth)
    \/ \E s \in Sessions : CallKillAuthSession(s)

SpecSession == InitSession /\ [][NextSession]_vars

\* The session's token matches a row whose expiry is strictly before now.
Dead(s) ==
    /\ sessions[s] # NoToken
    /\ \E id \in DOMAIN db : db[id].HashCode = sessions[s]
    /\ \A id \in DOMAIN db : db[id].HashCode = sessions[s] => db[id].ExpTime < now

\* C12: after KillAuthSession runs for a session whose token matches a row,
\* the row's expiry is strictly before the current time and the row's token
\* and the session's token are unchanged; from then on, until a successful
\* login, the session stays so and every IsSessionExpired for it returns true.
C12_SessionKill ==
    [][ /\ (last'.op = "kill" /\ last'.path = "killed")
            => /\ \A id \in DOMAIN db : db[id].HashCode = sessions[last'.s]
                                        => db'[id].ExpTime < now'
               /\ TokensUnchanged
        /\ \A s \in Sessions :
             (Dead(s) /\ ~(last'.op = "auth" /\ last'.path = "success"))
                => /\ sessions'[s] = sessions[s]
                   /\ \A id \in DOMAIN db : db[id].HashCode = sessions[s]
                        => db'[id].HashCode = db[id].HashCode /\ db'[id].ExpTime < now'
                   /\ (last'.op = "view" /\ last'.path = "protected" /\ last'.s = s)
                        => last'.expired
      ]_vars

\* What holds of C12 whether or not the Update of the expiry goes through.
KillOrUnchanged ==
    [][ /\ (last'.op = "kill" /\ last'.path = "killed")
            => /\ \A id \in DOMAIN db : db[id].HashCode = sessions[last'.s]
                        => db'[id].ExpTime < now' \/ db'[id].ExpTime = db[id].ExpTime
               /\ TokensUnchanged
        /\ \A s \in Sessions :
             (Dead(s) /\ ~(last'.op = "auth" /\ last'.path = "success"))
                => /\ sessions'[s] = sessions[s]
                   /\ \A id \in DOMAIN db : db[id].HashCode = sessions[s]
                        => db'[id].HashCode = db[id].HashCode /\ db'[id].ExpTime < now'
                   /\ (last'.op = "view" /\ last'.path = "protected" /\ last'.s = s)
                        => last'.expired
      ]_vars

\* C13: ResetAttempts(x) in any state of x deletes the record, so immediately
\* afterwards IsBlocked(x) is false, and the next RecordFailedAttempt(x)
\* creates a record with Count = 1 and zero BlockedUntil.
C13_Reset ==
    [][ /\ last'.op = "ResetAttempts"
            => /\ last'.id \notin DOMAIN attempts'[RL]
               /\ ~IsBlocked(attempts'[RL], last'.id, now')
        /\ (last.op = "ResetAttempts" /\ last'.op = "RecordFailedAttempt"
                                      /\ last'.id = last.id)
            => attempts'[RL][last'.id] = Record(1, ZeroTime)
      ]_vars

\* ResetAttempts found x blocked and left it without a record.
C13_Witness ==
    /\ last.op = "ResetAttempts" /\ last.ret = 2
    /\ last.id \notin DOMAIN attempts[RL]

\* C14: once the block duration has elapsed for a blocked x, IsBlocked(x) is
\* false without any other operation, and at every time at which IsBlocked(x)
\* is false for such a previously blocked x, the next RecordFailedAttempt(x)
\* leaves the record with Count = 1 and BlockedUntil cleared.
C14_BlockExpiry ==
    [][ \A x \in Idents(RL) :
          (x \in DOMAIN attempts[RL] /\ ~IsZero(attempts[RL][x].BlockedUntil))
          => /\ now >= attempts[RL][x].BlockedUntil => ~IsBlocked(attempts[RL], x, now)
             /\ ( /\ ~IsBlocked(attempts[RL], x, now)
                  /\ last'.op = "RecordFailedAttempt" /\ last'.id = x )
                => attempts'[RL][x] = Record(1, ZeroTime)
      ]_vars

\* The statement of C14 for the times strictly after BlockedUntil.
BlockExpiryStrictlyAfter ==
    [][ \A x \in Idents(RL) :
          (x \in DOMAIN attempts[RL] /\ ~IsZero(attempts[RL][x].BlockedUntil))
          => /\ now >= attempts[RL][x].BlockedUntil => ~IsBlocked(attempts[RL], x, now)
             /\ ( /\ now > attempts[RL][x].BlockedUntil
                  /\ last'.op = "RecordFailedAttempt" /\ last'.id = x )
                => attempts'[RL][x] = Record(1, ZeroTime)
      ]_vars

\* C15: IsBlocked(x) returns true if and only if a record for x exists and the
\* current time is strictly before that record's BlockedUntil; it never
\* changes any record.
C15_IsBlocked ==
    [][ last'.op = "IsBlocked"
        => /\ (last'.ret = 1) <=> ( /\ last'.id \in DOMAIN attempts[RL]
                                    /\ now < attempts[RL][last'.id].BlockedUntil )
           /\ last'.ret \in {0, 1}
           /\ attempts' = attempts
      ]_vars

\* IsBlocked returned false for a record at the very instant of BlockedUntil.
C15_Witness ==
    /\ last.op = "IsBlocked" /\ last.ret = 0
    /\ last.id \in DOMAIN attempts[RL]
    /\ attempts[RL][last.id].BlockedUntil = now

\* ------------------------------------------------ the background sweep
\* The limiter is used up to MaxTimeRL and then left alone, while time and the
\* sweep go on long enough to pass any block window plus one block duration.
MaxTimeGC == MaxTimeRL + 2 * BlockDuration + 1

TickGC ==
    /\ now < MaxTimeGC
    /\ now' = now + 1
    /\ last' = [NoEvent EXCEPT !.op = "tick"]
    /\ UNCHANGED <<attempts, MaxAttempts, db, sessions, streak, calls, query, UserData>>

Activity ==
    /\ now <= MaxTimeRL
    /\ \E id \in Idents(RL) : CallRecordFailedAttempt(id) \/ CallResetAttempts(id)

NextGC == TickGC \/ Activity \/ cleanupLoop(RL)

\* The ticker of cleanupLoop keeps firing and time keeps passing.
SpecGC == InitRL /\ [][NextGC]_vars /\ WF_vars(TickGC) /\ WF_vars(cleanupLoop(RL))

\* C16: under a fairly scheduled sweep every record that sees no further
\* activity is eventually removed from the attempts map, including a record
\* created by a single failed attempt that never reached MaxAttempts.
C16_GarbageCollection == <>[](DOMAIN attempts[RL] = {})

\* What the sweep does achieve: the records left in the end are those that
\* never got a BlockedUntil.
BlockedRecordsCollected ==
    <>[](\A x \in DOMAIN attempts[RL] : IsZero(attempts[RL][x].BlockedUntil))

\* C17: the background sweep started by NewRateLimiter can be stopped: once
\* the limiter is no longer needed there comes a point after which cleanupLoop
\* has terminated and no further cleanup can run.
C17_SweepShutdown == <>[](~ENABLED cleanupLoop(RL))

\* cleanupLoop ranges over the ticker's channel and has no other exit: as long
\* as the limiter exists, another sweep can run.
SweepNeverStops == [](MaxAttempts[RL] > 0 => ENABLED cleanupLoop(RL))

\* ------------------------------------------- RateLimiter, concurrent calls
Writers == {"RecordFailedAttempt", "ResetAttempts", "cleanup"}
Readers == {"IsBlocked", "GetRemainingAttempts"}

\* Goroutine p holds rl.mu for writing / for reading.
HoldsLock(c, p) == c[p].pc \in {"body", "store", "check", "unlock"}
HoldsRLock(c, p) == c[p].pc \in {"read", "runlock"}

\* rl.mu.Lock() returns: nobody else holds the mutex in either mode.
CanLock(c, p) == \A q \in Procs \ {p} : ~HoldsLock(c, q) /\ ~HoldsRLock(c, q)

CanRLock_always(c, p) == TRUE

\* rl.mu.RLock() returns: nobody holds the mutex for writing.
CanRLock(c, p) == \A q \in Procs \ {p} : ~HoldsLock(c, q)

CountOf(att, id) == IF id \in DOMAIN att THEN att[id].Count ELSE 0

\* RecordFailedAttempt calls for id that have started and not yet returned.
InFlight(c, id) ==
    Cardinality({q \in Procs : c[q].op = "RecordFailedAttempt" /\ c[q].id = id})

\* Goroutine p calls method op for id and reaches the acquisition of the mutex.
Begin(p, op, id) ==
    /\ calls[p].pc = "idle"
    /\ op = "RecordFailedAttempt" =>
            CountOf(attempts[RL], id) + InFlight(calls, id) < MaxCount
    /\ op = "cleanup" => id = CHOOSE x \in Idents(RL) : TRUE
    /\ calls' = [calls EXCEPT ![p] = [Idle EXCEPT !.pc = IF op \in Writers THEN "lock" ELSE "rlock",
                                                  !.op = op, !.id = id]]
    /\ UNCHANGED <<now, attempts, MaxAttempts, db, sessions, streak, last, query, UserData>>

Lock(p) ==
    /\ calls[p].pc = "lock"
    /\ CanLock(calls, p)
    /\ calls' = [calls EXCEPT ![p].pc = "body"]
    /\ UNCHANGED <<now, attempts, MaxAttempts, db, sessions, streak, last, query, UserData>>

RLock(p) ==
    /\ calls[p].pc = "rlock"
    /\ CanRLock(calls, p)
    /\ calls' = [calls EXCEPT ![p].pc = "read"]
    /\ UNCHANGED <<now, attempts, MaxAttempts, db, sessions, streak, last, query, UserData>>

\* The body of a writer up to its first write of the record. For
\* RecordFailedAttempt on a record that exists and whose block has not
\* expired, that is the read of record.Count for Count++.
Body(p) ==
    /\ calls[p].pc = "body"
    /\ LET id == calls[p].id
           att == attempts[RL]
       IN  CASE calls[p].op = "ResetAttempts" ->
                  /\ attempts' = [attempts EXCEPT ![RL] = ResetAttempts(att, id)]
                  /\ calls' = [calls EXCEPT ![p].pc = "unlock"]
             [] calls[p].op = "cleanup" ->
                  /\ attempts' = [attempts EXCEPT ![RL] = cleanup(att, now)]
                  /\ calls' = [calls EXCEPT ![p].pc = "unlock"]
             [] OTHER ->
                  IF \/ id \notin DOMAIN att
                     \/ (~IsZero(att[id].BlockedUntil) /\ After(now, att[id].BlockedUntil))
                  THEN /\ attempts' = [attempts EXCEPT ![RL] =
                                          RecordFailedAttempt(att, id, now, MaxAttempts[RL])]
                       /\ calls' = [calls EXCEPT ![p].pc = "unlock"]
                  ELSE /\ calls' = [calls EXCEPT ![p].pc = "store", ![p].tmp = att[id].Count]
                       /\ UNCHANGED attempts
    /\ UNCHANGED <<now, MaxAttempts, db, sessions, streak, last, query, UserData>>

\* record.Count++ writes the incremented value back.
Store(p) ==
    /\ calls[p].pc = "store"
    /\ LET id == calls[p].id
       IN  attempts' = [attempts EXCEPT ![RL] =
               IF id \in DOMAIN attempts[RL]
               THEN Put(attempts[RL], id, Record(calls[p].tmp + 1, attempts[RL][id].BlockedUntil))
               ELSE Put(attempts[RL], id, Record(calls[p].tmp + 1, ZeroTime))]
    /\ calls' = [calls EXCEPT ![p].pc = "check"]
    /\ UNCHANGED <<now, MaxAttempts, db, sessions, streak, last, query, UserData>>

\* if record.Count >= rl.MaxAttempts { record.BlockedUntil = now.Add(...) }
Check(p) ==
    /\ calls[p].pc = "check"
    /\ LET id == calls[p].id
           att == attempts[RL]
       IN  attempts' = [attempts EXCEPT ![RL] =
               IF id \in DOMAIN att /\ att[id].Count >= MaxAttempts[RL]
               THEN Put(att, id, Record(att[id].Count, now + BlockDuration))
               ELSE att]
    /\ calls' = [calls EXCEPT ![p].pc = "unlock"]
    /\ UNCHANGED <<now, MaxAttempts, db, sessions, streak, last, query, UserData>>

\* The deferred rl.mu.Unlock(); the call returns.
Unlock(p) ==
    /\ calls[p].pc = "unlock"
    /\ calls' = [calls EXCEPT ![p] = Idle]
    /\ streak' = [streak EXCEPT ![RL] =
                    StreakAfter(RL, attempts[RL],
                                IF calls[p].op = "RecordFailedAttempt" THEN {calls[p].id} ELSE {})]
    /\ UNCHANGED <<now, attempts, MaxAttempts, db, sessions, last, query, UserData>>

\* A reader reads the record of its identifier.
Read(p) ==
    /\ calls[p].pc = "read"
    /\ calls' = [calls EXCEPT ![p].pc = "runlock",
                              ![p].torn = \E q \in Procs \ {p} :
                                              calls[q].pc = "check" /\ calls[q].id = calls[p].id]
    /\ UNCHANGED <<now, attempts, MaxAttempts, db, sessions, streak, last, query, UserData>>

\* The deferred rl.mu.RUnlock(); the call returns.
RUnlock(p) ==
    /\ calls[p].pc = "runlock"
    /\ calls' = [calls EXCEPT ![p] = Idle]
    /\ UNCHANGED <<now, attempts, MaxAttempts, db, sessions, streak, last, query, UserData>>

NextConc ==
    \/ \E p \in Procs, op \in Writers \cup Readers, id \in Idents(RL) : Begin(p, op, id)
    \/ \E p \in Procs : Lock(p)
    \/ \E p \in Procs : RLock(p)
    \/ \E p \in Procs : Body(p)
    \/ \E p \in Procs : Store(p)
    \/ \E p \in Procs : Check(p)
    \/ \E p \in Procs : Unlock(p)
    \/ \E p \in Procs : Read(p)
    \/ \E p \in Procs : RUnlock(p)

SpecConc == InitRL /\ [][NextConc]_vars

\* C18: under any interleaving of concurrent calls every call takes effect
\* atomically under the single lock: the RecordFailedAttempt(x) calls that
\* have returned since x had no record are all counted (N calls end with
\* Count = N), and no reader observes a record whose Count has been
\* incremented while the check against MaxAttempts has not yet run.
C18_Atomicity ==
    /\ (\A p \in Procs : ~HoldsLock(calls, p))
            => \A x \in Idents(RL) : CountOf(attempts[RL], x) = streak[RL][x]
    /\ \A p \in Procs : ~calls[p].torn
    /\ \A p \in Procs : HoldsLock(calls, p) =>
            \A q \in Procs \ {p} : ~HoldsLock(calls, q) /\ ~HoldsRLock(calls, q)

\* Three calls for the same identifier contend: one RecordFailedAttempt is
\* between Count++ and the check with Count at MaxAttempts, another waits for
\* the lock, and an IsBlocked waits for the read lock.
C18_Witness ==
    \E p \in Procs, q \in Procs, r \in Procs :
        /\ calls[p].pc = "check" /\ calls[p].op = "RecordFailedAttempt"
        /\ calls[p].id \in DOMAIN attempts[RL]
        /\ attempts[RL][calls[p].id].Count = MaxAttempts[RL]
        /\ IsZero(attempts[RL][calls[p].id].BlockedUntil)
        /\ calls[q].pc = "lock" /\ calls[q].op = "RecordFailedAttempt" /\ calls[q].id = calls[p].id
        /\ calls[r].pc = "rlock" /\ calls[r].op = "IsBlocked" /\ calls[r].id = calls[p].id

\* ------------------------------------ the two limiters of the Controller
\* c.IPRateLimiter and c.UserRateLimiter, both configured, called directly.
InitTwo ==
    /\ now = 1
    /\ attempts = [l \in Limiters |-> EmptyMap]
    /\ MaxAttempts \in [Limiters -> 1..MaxM]
    /\ db = EmptyMap
    /\ sessions = [s \in Sessions |-> NoToken]
    /\ streak = [l \in Limiters |-> [x \in Idents(l) |-> 0]]
    /\ last = NoEvent
    /\ calls = [p \in Procs |-> Idle]
    /\ UserData = NoUserData
    /\ query = NoQuery

\* The event of a call on limiter lim: the identifier is an IP for the IP
\* limiter and a username for the username limiter.
LimiterEvent(op, lim, id) ==
    [NoEvent EXCEPT !.op = op, !.id = id,
                    !.ip = IF lim = "ip" THEN id ELSE "",
                    !.user = IF lim = "user" THEN id ELSE ""]

LimiterRecordFailedAttempt(lim, id) ==
    /\ CountOf(attempts[lim], id) < MaxCount
    /\ LET att2 == RecordFailedAttempt(attempts[lim], id, now, MaxAttempts[lim])
       IN  /\ attempts' = [attempts EXCEPT ![lim] = att2]
           /\ streak' = [streak EXCEPT ![lim] = StreakAfter(lim, att2, {id})]
    /\ last' = LimiterEvent("RecordFailedAttempt", lim, id)
    /\ UNCHANGED <<now, MaxAttempts, db, sessions, calls, query, UserData>>

LimiterResetAttempts(lim, id) ==
    /\ LET att2 == ResetAttempts(attempts[lim], id)
       IN  /\ attempts' = [attempts EXCEPT ![lim] = att2]
           /\ streak' = [streak EXCEPT ![lim] = StreakAfter(lim, att2, {})]
    /\ last' = LimiterEvent("ResetAttempts", lim, id)
    /\ UNCHANGED <<now, MaxAttempts, db, sessions, calls, query, UserData>>

NextTwo ==
    \/ TickRL
    \/ \E lim \in Limiters : \E id \in Idents(lim) : LimiterRecordFailedAttempt(lim, id)
    \/ \E lim \in Limiters : \E id \in Idents(lim) : LimiterResetAttempts(lim, id)
    \/ \E lim \in Limiters : cleanupLoop(lim)

SpecTwo == InitTwo /\ [][NextTwo]_vars

\* C19: RecordFailedAttempt(x) and ResetAttempts(x) leave the record of every
\* identifier y # x of the same limiter unchanged, and a call on one of the
\* two limiters never changes a record or IsBlocked on the other.
C19_Independence ==
    [][ last'.op \in {"RecordFailedAttempt", "ResetAttempts"}
        => LET lim == IF last'.ip # "" THEN "ip" ELSE "user"
               other == IF last'.ip # "" THEN "user" ELSE "ip"
           IN  /\ \A y \in Idents(lim) \ {last'.id} :
                    /\ (y \in DOMAIN attempts'[lim]) <=> (y \in DOMAIN attempts[lim])
                    /\ y \in DOMAIN attempts[lim] => attempts'[lim][y] = attempts[lim][y]
               /\ attempts'[other] = attempts[other]
               /\ \A y \in Idents(other) :
                    IsBlocked(attempts'[other], y, now') <=> IsBlocked(attempts[other], y, now)
      ]_vars

\* A failed attempt for eve has just blocked eve while alice keeps her
\* unblocked record and the IP limiter keeps a blocked ip1.
C19_Witness ==
    /\ last.op = "RecordFailedAttempt" /\ last.user = "eve"
    /\ IsBlocked(attempts["user"], "eve", now)
    /\ "alice" \in DOMAIN attempts["user"]
    /\ ~IsBlocked(attempts["user"], "alice", now)
    /\ IsBlocked(attempts["ip"], "ip1", now)

\* ------------------------------------------------- the query compilers
\* A statement text is the sequence of the string pieces the compiler
\* concatenates, cut so that every two-character suffix the code trims
\* (q[:len(q)-2]) is a piece of its own and every '?' is a piece of its own.
\* A value (interface{}) is a scalar, a []interface{} (kind "list") or a slice
\* of another element type such as []string (kind "typed").
QueryTypeInsert == "c"
QueryTypeSelect == "r"
QueryTypeUpdate == "u"
QueryTypeDelete == "d"

Scalar(x) == [kind |-> "scalar", v |-> x]
List(xs) == [kind |-> "list", elems |-> xs]
Typed(xs) == [kind |-> "typed", elems |-> xs]

SQLField(name, value) == [FieldName |-> name, Value |-> value]
Filter(field, operator, value, logic) ==
    [Field |-> field, Operator |-> operator, Value |-> value, Logic |-> logic]

RECURSIVE Flatten(_)
Flatten(ss) == IF ss = <<>> THEN <<>> ELSE Head(ss) \o Flatten(Tail(ss))

\* q[:len(q)-2]: the last piece is two characters long wherever the code trims.
Trim2(q) == SubSeq(q, 1, Len(q) - 1)

\* strings.Join(parts, ", ") over pieces.
RECURSIVE Join(_)
Join(parts) ==
    IF parts = <<>> THEN <<>>
    ELSE IF Len(parts) = 1 THEN Head(parts)
    ELSE Head(parts) \o <<", ">> \o Join(Tail(parts))

SetPiece == <<" SE", "T ">>

\* The JOIN clause of one SQLJoin.
JoinClause(jn, table) ==
    <<" ", jn.Join_type, " JOIN ", jn.Foreign_table, " ON ",
      jn.Foreign_table, ".", jn.ForeignKey, "=", table, ".", jn.LocalKey>>

TailClauses(group, order) ==
    (IF group # "" THEN <<" ", group>> ELSE <<>>)
    \o (IF order # "" THEN <<" ", order>> ELSE <<>>)

\* strconv.FormatInt(n, 10) for the small n of the model.
FormatInt(n) == <<"0", "1", "2", "3", "4", "5">>[n + 1]

\* v0 := values[0]; values = append(values[1:], v0): the first parameter, the
\* row filter's, moves behind the SET parameters.
RotateFirst_keep(values) == values
RotateFirst(values) == Tail(values) \o <<Head(values)>>

\* BuildQuery: (q, values); panic when the UPDATE branch reads values[0] of
\* an empty list.
BuildQuery(queryType, fields, table, joins, wheres, group, order, limit) ==
    LET s == IF Len(fields) > 0
             THEN Trim2(Flatten([i \in 1..Len(fields) |-> <<fields[i].FieldName, ", ">>]))
             ELSE <<"*">>
        j == Flatten([i \in 1..Len(joins) |-> JoinClause(joins[i], table)])
        w == IF Len(wheres) > 0
             THEN <<" WHERE ">> \o
                  Flatten([i \in 1..Len(wheres) |->
                      (IF wheres[i].Logic # "" THEN <<" ", wheres[i].Logic, " ">> ELSE <<>>)
                      \o <<"(", wheres[i].Field, " ", wheres[i].Operator, " ", "?", ")">>])
             ELSE <<>>
        wvalues == [i \in 1..Len(wheres) |-> wheres[i].Value]
        fvalues == [i \in 1..Len(fields) |-> fields[i].Value]
        l == IF limit > 0 THEN <<" LIMIT ", FormatInt(limit)>> ELSE <<>>
    IN  CASE queryType = QueryTypeSelect ->
               [q |-> <<"SELECT ">> \o s \o <<" FROM ", table>> \o j \o w
                      \o TailClauses(group, order) \o l,
                values |-> wvalues, panic |-> FALSE]
          [] queryType = QueryTypeInsert ->
               [q |-> Trim2(<<"INSERT INTO ", table, " (">> \o s \o <<") VALUES", " (">>
                            \o Flatten([i \in 1..Len(fields) |-> <<"?", ", ">>]))
                      \o <<")">>,
                values |-> wvalues \o fvalues, panic |-> FALSE]
          [] queryType = QueryTypeUpdate ->
               IF wvalues \o fvalues = <<>>
               THEN [q |-> <<>>, values |-> <<>>, panic |-> TRUE]
               ELSE [q |-> Trim2(<<"UPDATE ", table>> \o SetPiece
                                 \o Flatten([i \in 1..Len(fields) |->
                                        <<fields[i].FieldName, " = ", "?", ", ">>]))
                           \o w,
                     values |-> RotateFirst(wvalues \o fvalues),
                     panic |-> FALSE]
          [] queryType = QueryTypeDelete ->
               [q |-> <<"DELETE FROM ", table>> \o w, values |-> wvalues, panic |-> FALSE]
          [] OTHER -> [q |-> <<>>, values |-> wvalues, panic |-> FALSE]

\* The values an IN filter binds: the elements of a []interface{}; any other
\* value fails the type assertion and is bound as one value.
InValues(value) == IF value.kind = "list" THEN value.elems ELSE <<value>>

\* The WHERE predicate of one filter in BuildQueryExtended.
Predicate(f) ==
    IF f.Operator = "IN"
    THEN <<"(", f.Field, " IN (">>
         \o Join([k \in 1..Len(InValues(f.Value)) |-> <<"?">>]) \o <<"))">>
    ELSE <<"(", f.Field, " ", f.Operator, " ", "?", ")">>

PredicateValues(f) == IF f.Operator = "IN" THEN InValues(f.Value) ELSE <<f.Value>>

\* BuildQueryExtended: (q, values). It has no branch that can panic.
BuildQueryExtended(queryType, fields, table, joins, wheres, group, order, limit, offset) ==
    LET s == IF Len(fields) > 0
             THEN Join([i \in 1..Len(fields) |-> <<fields[i].FieldName>>])
             ELSE <<"*">>
        j == Flatten([i \in 1..Len(joins) |-> JoinClause(joins[i], table)])
        w == IF Len(wheres) > 0
             THEN <<" WHERE ">> \o
                  Flatten([i \in 1..Len(wheres) |->
                      (IF i > 1 /\ wheres[i].Logic # ""
                       THEN <<" ", wheres[i].Logic, " ">> ELSE <<>>)
                      \o Predicate(wheres[i])])
             ELSE <<>>
        wvalues == Flatten([i \in 1..Len(wheres) |-> PredicateValues(wheres[i])])
        fvalues == [i \in 1..Len(fields) |-> fields[i].Value]
        l == IF limit > 0
             THEN <<" LIMIT ", FormatInt(limit)>>
                  \o (IF offset > 0 THEN <<" OFFSET ", FormatInt(offset)>> ELSE <<>>)
             ELSE <<>>
    IN  CASE queryType = QueryTypeSelect ->
               [q |-> <<"SELECT ">> \o s \o <<" FROM ", table>> \o j \o w
                      \o TailClauses(group, order) \o l,
                values |-> wvalues, panic |-> FALSE]
          [] queryType = QueryTypeInsert ->
               [q |-> <<"INSERT INTO ", table, " (">>
                      \o Join([i \in 1..Len(fields) |-> <<fields[i].FieldName>>])
                      \o <<") VALUES", " (">>
                      \o Join([i \in 1..Len(fields) |-> <<"?">>]) \o <<")">>,
                values |-> wvalues \o fvalues, panic |-> FALSE]
          [] queryType = QueryTypeUpdate ->
               [q |-> <<"UPDATE ", table>> \o SetPiece
                      \o Join([i \in 1..Len(fields) |-> <<fields[i].FieldName, " = ", "?">>])
                      \o w,
                values |-> wvalues \o fvalues, panic |-> FALSE]
          [] queryType = QueryTypeDelete ->
               [q |-> <<"DELETE FROM ", table>> \o w, values |-> wvalues, panic |-> FALSE]
          [] OTHER -> [q |-> <<>>, values |-> wvalues, panic |-> FALSE]

\* --------------------------------------------- intents for the compilers
MaxFields == 1
MaxWheres == 2

TableName == "t"
FieldNames == <<"f1", "f2", "f3">>
FilterFields == <<"a", "b", "c">>
\* The contents a caller can put into a value.
Atoms == {"7", "x' OR '1'='1"}
FieldValues == {Scalar(a) : a \in Atoms}
\* A comparison takes one value; IN takes a sequence, a []interface{} or a
\* slice of another type, or a single value.
FilterValues(op) ==
    IF op = "IN"
    THEN {Scalar("7"), List(<<>>), List(<<Scalar("7"), Scalar("x' OR '1'='1")>>),
          List(<<Scalar("x' OR '1'='1"), Scalar("x' OR '1'='1")>>),
          Typed(<<"7", "x' OR '1'='1">>)}
    ELSE FieldValues
Operators == {"=", "IN"}
\* The first filter comes with or without a connective, the others with one.
Logics(i) == IF i = 1 THEN {"", "AND"} ELSE {"OR"}
QueryTypes == {QueryTypeInsert, QueryTypeSelect, QueryTypeUpdate, QueryTypeDelete, "x"}
\* A bare statement, and one with a join and every trailing clause, each with
\* and without an offset.
Offsets == {0, 1}
Tails == UNION {{[joins |-> <<>>, group |-> "", order |-> "", limit |-> 0, offset |-> k],
                 [joins |-> <<[Join_type |-> "LEFT", Foreign_table |-> "u",
                               ForeignKey |-> "fk", LocalKey |-> "lk"]>>,
                  group |-> "GROUP BY g", order |-> "ORDER BY o ASC",
                  limit |-> 1, offset |-> k]} : k \in Offsets}

\* What the i-th filter of an intent can be.
WhereChoices(i) ==
    UNION {{Filter(FilterFields[i], op, v, lg) : v \in FilterValues(op), lg \in Logics(i)}
           : op \in Operators}

Intent(qt, tl, fields, wheres) ==
    [queryType |-> qt, fields |-> fields, joins |-> tl.joins, wheres |-> wheres,
     group |-> tl.group, order |-> tl.order, limit |-> tl.limit, offset |-> tl.offset]

\* Both compilers applied to intent i.
Compiled(i) ==
    [intent |-> i,
     std |-> BuildQuery(i.queryType, i.fields, TableName, i.joins, i.wheres,
                        i.group, i.order, i.limit),
     ext |-> BuildQueryExtended(i.queryType, i.fields, TableName, i.joins, i.wheres,
                                i.group, i.order, i.limit, i.offset)]

InitQuery ==
    /\ now = 1
    /\ attempts = [l \in Limiters |-> EmptyMap]
    /\ MaxAttempts = [l \in Limiters |-> 0]
    /\ db = EmptyMap
    /\ sessions = [s \in Sessions |-> NoToken]
    /\ streak = [l \in Limiters |-> [x \in Idents(l) |-> 0]]
    /\ last = NoEvent
    /\ calls = [p \in Procs |-> Idle]
    /\ UserData = NoUserData
    /\ \E nf \in 0..MaxFields, nw \in 0..MaxWheres :
          \E qt \in QueryTypes, tl \in Tails, fv \in [1..nf -> FieldValues],
             wheres \in [1..nw -> UNION {WhereChoices(i) : i \in 1..nw}] :
                /\ \A i \in 1..nw : wheres[i] \in WhereChoices(i)
                /\ query = Compiled(Intent(qt, tl,
                                [i \in 1..nf |-> SQLField(FieldNames[i], fv[i])], wheres))

\* The caller compiles the same intent again with another value in one field
\* or in one filter.
Rebind ==
    /\ \/ \E i \in DOMAIN query.intent.fields, v \in FieldValues :
            query' = Compiled([query.intent EXCEPT !.fields[i].Value = v])
       \/ \E i \in DOMAIN query.intent.wheres :
            \E v \in FilterValues(query.intent.wheres[i].Operator) :
                query' = Compiled([query.intent EXCEPT !.wheres[i].Value = v])
    /\ UNCHANGED <<now, attempts, MaxAttempts, db, sessions, streak, last, calls, UserData>>

SpecQuery == InitQuery /\ [][Rebind]_vars

IsSequence(v) == v.kind \in {"list", "typed"}

\* The IN values of the two intents have equal length, filter by filter.
EqualInLengths(i1, i2) ==
    \A k \in DOMAIN i1.wheres :
        i1.wheres[k].Operator = "IN" =>
            \/ ~IsSequence(i1.wheres[k].Value) /\ ~IsSequence(i2.wheres[k].Value)
            \/ /\ IsSequence(i1.wheres[k].Value) /\ IsSequence(i2.wheres[k].Value)
               /\ Len(i1.wheres[k].Value.elems) = Len(i2.wheres[k].Value.elems)

\* ... and are of the same kind.
EqualInKinds(i1, i2) ==
    \A k \in DOMAIN i1.wheres :
        i1.wheres[k].Operator = "IN" => i1.wheres[k].Value.kind = i2.wheres[k].Value.kind

NoValueInText(c) ==
    /\ \A k \in DOMAIN c.std.q : c.std.q[k] \notin Atoms
    /\ \A k \in DOMAIN c.ext.q : c.ext.q[k] \notin Atoms

\* C20: the statement text returned by BuildQuery and BuildQueryExtended does
\* not depend on filter values or SQLField values: two intents that differ
\* only in those values, with IN values of equal length, compile to identical
\* text, and no value appears in the text.
C20_ValueIndependence ==
    [][ /\ NoValueInText(query')
        /\ EqualInLengths(query.intent, query'.intent)
            => /\ query'.std.q = query.std.q /\ query'.std.panic = query.std.panic
               /\ query'.ext.q = query.ext.q
      ]_vars

\* The statement of C20 for IN values that are also of the same kind.
ValueIndependenceSameKind ==
    [][ /\ NoValueInText(query')
        /\ (EqualInLengths(query.intent, query'.intent) /\ EqualInKinds(query.intent, query'.intent))
            => /\ query'.std.q = query.std.q /\ query'.std.panic = query.std.panic
               /\ query'.ext.q = query.ext.q
      ]_vars

\* --------------------------------------------------------- WHERE arity
Occurrences(q, piece) == Cardinality({k \in DOMAIN q : q[k] = piece})

\* What a filter is to bind: the elements of a sequence under IN, whatever
\* their type, else the value itself.
Elements(v) ==
    IF v.kind = "typed" THEN [k \in DOMAIN v.elems |-> Scalar(v.elems[k])] ELSE v.elems
Bound(f) == IF f.Operator = "IN" /\ IsSequence(f.Value) THEN Elements(f.Value) ELSE <<f.Value>>

\* One entry per filter and one more per IN element beyond the first.
RECURSIVE Arity(_)
Arity(wheres) ==
    IF wheres = <<>> THEN 0
    ELSE (IF Len(Bound(Head(wheres))) > 1 THEN Len(Bound(Head(wheres))) ELSE 1)
         + Arity(Tail(wheres))

WhereOnly(c) == c.intent.queryType \in {QueryTypeSelect, QueryTypeDelete}

WhereArity(c) ==
    (WhereOnly(c) /\ Len(c.intent.wheres) >= 1) =>
        /\ Occurrences(c.ext.q, "(") = Len(c.intent.wheres)
        /\ Len(c.ext.values) = Arity(c.intent.wheres)
        /\ Occurrences(c.ext.q, "?") = Len(c.ext.values)
        /\ c.ext.values = Flatten([i \in DOMAIN c.intent.wheres |-> Bound(c.intent.wheres[i])])

\* C21: for a filter list of N >= 1 entries the WHERE clause compiled by
\* BuildQueryExtended has exactly N parenthesized predicates, the parameter
\* list has N entries plus one per IN element beyond the first, and the '?'
\* placeholders are as many as the parameters, in the same order.
C21_WhereArity == WhereArity(query)

\* An IN value is a []interface{} with at least one element.
PlainIn(f) == f.Operator = "IN" => (f.Value.kind = "list" /\ f.Value.elems # <<>>)

\* The statement of C21 for filter lists whose IN values are non-empty
\* []interface{}; placeholders and parameters agree in number for every list.
WhereArityPlainIn ==
    /\ (\A i \in DOMAIN query.intent.wheres : PlainIn(query.intent.wheres[i]))
            => WhereArity(query)
    /\ WhereOnly(query) => Occurrences(query.ext.q, "?") = Len(query.ext.values)

\* --------------------------------------------------------- IN expansion
\* q has the pieces of sub at consecutive positions.
Contains(q, sub) ==
    \E k \in 0..(Len(q) - Len(sub)) : SubSeq(q, k + 1, k + Len(sub)) = sub

\* '(field IN (?, ..., ?))' with one placeholder per bound element.
ExpandedIn(f) ==
    <<"(", f.Field, " IN (">> \o Join([k \in 1..Len(Bound(f)) |-> <<"?">>]) \o <<"))">>

InExpanded(intent, r) ==
    /\ ~r.panic
    /\ \A i \in DOMAIN intent.wheres :
          intent.wheres[i].Operator = "IN" => Contains(r.q, ExpandedIn(intent.wheres[i]))
    /\ r.values = Flatten([i \in DOMAIN intent.wheres |-> Bound(intent.wheres[i])])
    /\ Occurrences(r.q, "?") = Len(r.values)

\* C22: in every SELECT compiled through Model.GetRecords (BuildQuery) and
\* through QueryBuilder (BuildQueryExtended), an IN filter over a sequence of
\* k >= 0 elements of any type is emitted as '(field IN (?, ..., ?))' with k
\* placeholders and binds the k elements in order; a non-sequence value gives
\* one placeholder and one parameter; no input crashes the compiler.
C22_InExpansion ==
    query.intent.queryType = QueryTypeSelect =>
        /\ InExpanded(query.intent, query.std)
        /\ InExpanded(query.intent, query.ext)

\* The statement of C22 for BuildQueryExtended alone and IN values that are
\* []interface{} or a single value.
InExpansionOfLists ==
    (/\ query.intent.queryType = QueryTypeSelect
     /\ \A i \in DOMAIN query.intent.wheres : query.intent.wheres[i].Value.kind # "typed")
        => InExpanded(query.intent, query.ext)

\* ------------------------------------------------ UPDATE parameter order
\* Model.Update: an UPDATE of K >= 1 fields with the primary-key equality
\* filter as the only filter.
IsModelUpdate(i) ==
    /\ i.queryType = QueryTypeUpdate
    /\ Len(i.fields) >= 1
    /\ Len(i.wheres) = 1 /\ i.wheres[1].Operator = "="

\* The position of the WHERE keyword in q, 0 when there is none.
WherePosition(q) ==
    IF \E k \in DOMAIN q : q[k] = " WHERE " THEN CHOOSE k \in DOMAIN q : q[k] = " WHERE " ELSE 0

SetValues(i) == [k \in DOMAIN i.fields |-> i.fields[k].Value]

WhereValues(i) == Flatten([k \in DOMAIN i.wheres |-> PredicateValues(i.wheres[k])])

IsExtendedUpdate(i) == i.queryType = QueryTypeUpdate /\ Len(i.wheres) >= 1

\* C24: for an UPDATE with K SET fields and W >= 1 filters compiled by
\* BuildQueryExtended, the i-th parameter is the value bound to the i-th '?'
\* of the text: the K SET values come first, the filter values last.
C24_ExtendedUpdateOrder ==
    IsExtendedUpdate(query.intent) =>
        /\ Occurrences(SubSeq(query.ext.q, 1, WherePosition(query.ext.q)), "?")
              = Len(query.intent.fields)
        /\ query.ext.values = SetValues(query.intent) \o WhereValues(query.intent)

\* What holds instead: the placeholders of SET precede those of WHERE in the
\* text while the filter values precede the SET values in the parameters.
ExtendedUpdateWhereFirst ==
    IsExtendedUpdate(query.intent) =>
        /\ Occurrences(SubSeq(query.ext.q, 1, WherePosition(query.ext.q)), "?")
              = Len(query.intent.fields)
        /\ query.ext.values = WhereValues(query.intent) \o SetValues(query.intent)

\* ------------------------------------------------ compilation never fails
\* C25: BuildQuery and BuildQueryExtended return a (text, parameters) pair
\* without crashing for every intent, malformed ones included.
C25_NeverFails == ~query.std.panic /\ ~query.ext.panic

\* BuildQuery crashes exactly on an UPDATE with no field and no filter;
\* BuildQueryExtended never does.
FailsOnEmptyUpdate ==
    /\ ~query.ext.panic
    /\ query.std.panic <=> /\ query.intent.queryType = QueryTypeUpdate
                           /\ query.intent.fields = <<>>
                           /\ query.intent.wheres = <<>>

\* ----------------------------------------------------------- QueryBuilder
MaxRows == 2

\* The value of an SQLField that carries only a column name.
NilValue == Scalar("nil")

\* NewQueryBuilder: all columns, no join, no filter, no limit, no offset.
NewQueryBuilder ==
    [queryType |-> QueryTypeSelect, fields |-> <<SQLField("*", NilValue)>>,
     joins |-> <<>>, wheres |-> <<>>, group |-> "", order |-> "", limit |-> 0, offset |-> 0]

NoStatement == [q |-> <<>>, values |-> <<>>, panic |-> FALSE]

\* QueryBuilder.buildQuery
buildQuery(qb) ==
    BuildQueryExtended(QueryTypeSelect, qb.fields, TableName, qb.joins, qb.wheres,
                       qb.group, qb.order, qb.limit, qb.offset)

InitBuilder ==
    /\ now = 1
    /\ attempts = [l \in Limiters |-> EmptyMap]
    /\ MaxAttempts = [l \in Limiters |-> 0]
    /\ db = EmptyMap
    /\ sessions = [s \in Sessions |-> NoToken]
    /\ streak = [l \in Limiters |-> [x \in Idents(l) |-> 0]]
    /\ last = NoEvent
    /\ calls = [p \in Procs |-> Idle]
    /\ UserData = NoUserData
    /\ query = [intent |-> NewQueryBuilder, ext |-> NoStatement]

BuilderUnchanged == UNCHANGED <<now, attempts, MaxAttempts, db, sessions, streak, calls, UserData>>

\* The builder after appending filter f.
AddFilter(qb, f) == [qb EXCEPT !.wheres = Append(@, f)]

Where ==
    /\ Len(query.intent.wheres) < MaxWheres
    /\ \E value \in FieldValues :
          LET field == FilterFields[Len(query.intent.wheres) + 1]
              logic == IF Len(query.intent.wheres) > 0 THEN "AND" ELSE ""
          IN  query' = [query EXCEPT !.intent = AddFilter(@, Filter(field, "=", value, logic))]
    /\ last' = [NoEvent EXCEPT !.op = "Where"]
    /\ BuilderUnchanged

OrWhere ==
    /\ Len(query.intent.wheres) < MaxWheres
    /\ \E value \in FieldValues :
          LET field == FilterFields[Len(query.intent.wheres) + 1]
          IN  query' = [query EXCEPT !.intent = AddFilter(@, Filter(field, "=", value, "OR"))]
    /\ last' = [NoEvent EXCEPT !.op = "OrWhere"]
    /\ BuilderUnchanged

WhereIn ==
    /\ Len(query.intent.wheres) < MaxWheres
    /\ \E values \in {v \in FilterValues("IN") : v.kind = "list"} :
          LET field == FilterFields[Len(query.intent.wheres) + 1]
              logic == IF Len(query.intent.wheres) > 0 THEN "AND" ELSE ""
          IN  query' = [query EXCEPT !.intent = AddFilter(@, Filter(field, "IN", values, logic))]
    /\ last' = [NoEvent EXCEPT !.op = "WhereIn"]
    /\ BuilderUnchanged

Limit ==
    /\ \E limit \in {0, 1, MaxRows} : query' = [query EXCEPT !.intent.limit = limit]
    /\ last' = [NoEvent EXCEPT !.op = "Limit"]
    /\ BuilderUnchanged

\* The LIMIT a statement text carries, 0 when it carries none.
LimitOf(q) ==
    IF \E k \in DOMAIN q : q[k] = " LIMIT "
    THEN LET k == CHOOSE k \in DOMAIN q : q[k] = " LIMIT "
         IN  CHOOSE n \in 0..5 : FormatInt(n) = q[k + 1]
    ELSE 0

\* The number of rows the database returns for a statement that matching
\* rows satisfy.
Fetched(q, matching) ==
    IF LimitOf(q) > 0 /\ matching > LimitOf(q) THEN LimitOf(q) ELSE matching

\* qb.Limit(1) at the head of First.
ForcedLimit_keep(limit) == limit
ForcedLimit(limit) == 1

\* First: Limit(1), Execute, then the first row or an error. The database
\* fails or returns the rows that match (ret is the number of rows First
\* returns, lookups the number the database returned).
First ==
    \E failed \in BOOLEAN, matching \in 0..MaxRows :
        LET qb == [query.intent EXCEPT !.limit = ForcedLimit(@)]
            st == buildQuery(qb)
            results == Fetched(st.q, matching)
        IN  /\ query' = [intent |-> qb, ext |-> st]
            /\ last' = [NoEvent EXCEPT
                          !.op = "First", !.err = failed \/ results = 0,
                          !.id = IF matching > 0 THEN "match" ELSE "none",
                          !.lookups = IF failed THEN 0 ELSE results,
                          !.ret = IF ~failed /\ results > 0 THEN 1 ELSE 0,
                          !.path = IF failed THEN "execution failed"
                                   ELSE IF results = 0 THEN "no records found"
                                   ELSE "row"]
            /\ BuilderUnchanged

NextBuilder == Where \/ OrWhere \/ WhereIn \/ Limit \/ First

SpecBuilder == InitBuilder /\ [][NextBuilder]_vars

\* C26: after any sequence of Where, OrWhere and WhereIn calls on a new
\* QueryBuilder the first filter carries empty logic and every later filter
\* non-empty logic: AND when added by Where or WhereIn, OR when added by OrWhere.
C26_FilterLogic ==
    LET wheres == query.intent.wheres
    IN  /\ wheres # <<>> => wheres[1].Logic = ""
        /\ \A i \in 2..Len(wheres) : wheres[i].Logic # ""
        /\ (Len(wheres) > 1 /\ last.op \in {"Where", "WhereIn"})
                => wheres[Len(wheres)].Logic = "AND"
        /\ (Len(wheres) > 1 /\ last.op = "OrWhere") => wheres[Len(wheres)].Logic = "OR"

\* The statement of C26 with the first filter's logic empty only when it was
\* added by Where or WhereIn.
FilterLogicAfterFirst ==
    LET wheres == query.intent.wheres
    IN  /\ \A i \in 2..Len(wheres) : wheres[i].Logic # ""
        /\ wheres # <<>> => wheres[1].Logic \in {"", "OR"}
        /\ (Len(wheres) = 1 /\ last.op \in {"Where", "WhereIn"}) => wheres[1].Logic = ""
        /\ (Len(wheres) > 1 /\ last.op \in {"Where", "WhereIn"})
                => wheres[Len(wheres)].Logic = "AND"
        /\ (Len(wheres) > 1 /\ last.op = "OrWhere") => wheres[Len(wheres)].Logic = "OR"

\* C27: First executes the query with limit 1 whatever limit was set before,
\* returns the single row when at least one row matches, and returns the 'no
\* records found' error, distinct from the error of a failed execution, when
\* no row matches.
C27_First ==
    last.op = "First" =>
        /\ LimitOf(query.ext.q) = 1
        /\ last.path = "execution failed" => (last.err /\ last.ret = 0)
        /\ (last.path # "execution failed" /\ last.id = "match")
                => (~last.err /\ last.ret = 1 /\ last.lookups = 1 /\ last.path = "row")
        /\ (last.path # "execution failed" /\ last.id = "none")
                => (last.err /\ last.ret = 0 /\ last.path = "no records found")

C27_Witness ==
    /\ last.op = "First" /\ last.path = "row"
    /\ Len(query.intent.wheres) > 0

\* ------------------------------------------------------------------ Model
MaxRelations == 2

ResultStyleFullresult == 0
ResultStyleSubresult == 1

PKField == "id"
\* The columns SHOW COLUMNS reports for the table.
Columns == <<"id", "f1">>
ForeignTables == <<"u1", "u2", "u3">>
ForeignKeys == <<"fk1", "fk2", "fk3">>
LocalKeys == <<"lk1", "lk2", "lk3">>

\* The j-th relation AddRelation appends, with the given result style.
Relation(j, style) ==
    [Join |-> [Join_type |-> "LEFT", Foreign_table |-> ForeignTables[j],
               ForeignKey |-> ForeignKeys[j], LocalKey |-> LocalKeys[j]],
     Foreign_fields |-> <<PKField>>,
     ResultStyle |-> style]

\* A Model literal: no Fields, no Relations, DB set or nil.
NewModel(hasDB) == [DB |-> hasDB, Fields |-> <<>>, Relations |-> <<>>]

NoOperation == [statements |-> <<>>, fetches |-> <<>>, rows |-> <<>>]

InitNewModel ==
    /\ now = 1
    /\ attempts = [l \in Limiters |-> EmptyMap]
    /\ MaxAttempts = [l \in Limiters |-> 0]
    /\ db = EmptyMap
    /\ sessions = [s \in Sessions |-> NoToken]
    /\ streak = [l \in Limiters |-> [x \in Idents(l) |-> 0]]
    /\ last = NoEvent
    /\ calls = [p \in Procs |-> Idle]
    /\ UserData = NoUserData
    /\ \E hasDB \in BOOLEAN : query = [model |-> NewModel(hasDB)] @@ NoOperation

\* InitModel: sets DB and appends the table's columns and the fields of the
\* related models to Fields; a failed SHOW COLUMNS leaves Fields as they are.
InitModel ==
    /\ query.model.Fields = <<>>
    /\ \E failed \in BOOLEAN :
          /\ query' = [model |-> [query.model EXCEPT
                          !.DB = TRUE,
                          !.Fields = IF failed THEN @
                                     ELSE Columns \o
                                          Flatten([j \in DOMAIN query.model.Relations |->
                                              [k \in DOMAIN query.model.Relations[j].Foreign_fields |->
                                                  <<query.model.Relations[j].Join.Foreign_table,
                                                    query.model.Relations[j].Foreign_fields[k]>>]])]]
                      @@ NoOperation
          /\ last' = [NoEvent EXCEPT !.op = "InitModel", !.err = failed]
    /\ BuilderUnchanged

AddRelation ==
    /\ Len(query.model.Relations) < MaxRelations
    /\ \E result_style \in {ResultStyleFullresult, ResultStyleSubresult} :
          query' = [model |-> [query.model EXCEPT
                        !.Relations = Append(@, Relation(Len(@) + 1, result_style))]]
                   @@ NoOperation
    /\ last' = [NoEvent EXCEPT !.op = "AddRelation"]
    /\ BuilderUnchanged

\* The value of column key in the r-th row of the parent result.
RowValue(r, key) == Scalar(<<r, key>>)

Subresults(relations) ==
    SelectSeq(relations, LAMBDA rel : rel.ResultStyle = ResultStyleSubresult)
Fullresults(relations) ==
    SelectSeq(relations, LAMBDA rel : rel.ResultStyle = ResultStyleFullresult)

\* The filter of the child fetch for row r and relation rel.
ChildFilter_pk(rel, r) == Filter(rel.Join.ForeignKey, "=", RowValue(r, PKField), "")
ChildFilter(rel, r) == Filter(rel.Join.ForeignKey, "=", RowValue(r, rel.Join.LocalKey), "")

\* relation.Foreign_model.GetRecords(f, 0) for row r: the call and the
\* statement it compiles.
ChildFetch(rel, r) ==
    [row |-> r, table |-> rel.Join.Foreign_table, filters |-> <<ChildFilter(rel, r)>>,
     limit |-> 0,
     statement |-> BuildQuery(QueryTypeSelect, <<SQLField("*", NilValue)>>,
                              rel.Join.Foreign_table, <<>>, <<ChildFilter(rel, r)>>, "", "", 0)]

\* The child fetches of the row loop in the order the loop issues them.
Planned(P, relations) ==
    Flatten([r \in 1..P |->
        [k \in 1..Len(Subresults(relations)) |-> ChildFetch(Subresults(relations)[k], r)]])

\* The rows a child fetch returns when every such fetch finds n rows.
ChildRows(fetch, n) == [k \in 1..n |-> [table |-> fetch.table, of |-> fetch.filters[1].Value, k |-> k]]

\* GetRecords(filters, limit): compile with BuildQuery, query the database,
\* and for each row one child fetch per SubResult relation. The database may
\* fail on the parent query or on the failAt-th child fetch; a nil DB panics
\* at m.DB.Query.
GetRecords ==
    \E filters \in {<<>>, <<Filter("a", "=", Scalar("7"), "")>>}, limit \in {0, 1},
       matching \in 0..MaxRows, children \in {0, 1}, failed \in BOOLEAN :
        LET m == query.model
            st == BuildQuery(QueryTypeSelect, <<SQLField("*", NilValue)>>, TableName,
                             [k \in DOMAIN Fullresults(m.Relations) |->
                                 Fullresults(m.Relations)[k].Join],
                             filters, "", "", limit)
            P == Fetched(st.q, matching)
            plan == Planned(P, m.Relations)
        IN  \E failAt \in 0..Len(plan) :
              LET done == IF failAt = 0 THEN plan ELSE SubSeq(plan, 1, failAt)
                  path == IF ~m.DB THEN "panic"
                          ELSE IF failed \/ failAt > 0 THEN "error" ELSE "ok"
              IN  /\ failed => failAt = 0
                  /\ query' = [model |-> m,
                               statements |-> <<st>>,
                               fetches |-> IF path = "panic" \/ failed THEN <<>> ELSE done,
                               rows |-> IF path # "ok" THEN <<>>
                                        ELSE [r \in 1..P |->
                                                [Values |-> r,
                                                 Subresult |->
                                                    Flatten([k \in 1..Len(Subresults(m.Relations)) |->
                                                        ChildRows(ChildFetch(Subresults(m.Relations)[k], r),
                                                                  children)])]]]
                  /\ last' = [NoEvent EXCEPT !.op = "GetRecords", !.path = path,
                                !.err = (path = "error"),
                                !.lookups = IF path = "panic" \/ failed THEN 0 ELSE P,
                                !.ret = children]
                  /\ BuilderUnchanged

\* Insert, Update and Delete: compile with BuildQuery, then
\* executeWithContext; a nil DB panics at m.DB.Prepare.
Write(op, st) ==
    \E failed \in BOOLEAN :
        /\ query' = [model |-> query.model, statements |-> <<st>>, fetches |-> <<>>, rows |-> <<>>]
        /\ last' = [NoEvent EXCEPT !.op = op, !.err = (query.model.DB /\ failed),
                      !.path = IF ~query.model.DB THEN "panic"
                               ELSE IF failed THEN "error" ELSE "ok"]
        /\ BuilderUnchanged

Insert ==
    \E v \in FieldValues :
        Write("Insert", BuildQuery(QueryTypeInsert, <<SQLField("f1", v)>>, TableName,
                                   <<>>, <<>>, "", "", 0))

Update ==
    \E v \in FieldValues :
        Write("Update", BuildQuery(QueryTypeUpdate, <<SQLField("f1", v)>>, TableName, <<>>,
                                   <<Filter(PKField, "=", Scalar("7"), "")>>, "", "", 0))

ModelDelete ==
    Write("Delete", BuildQuery(QueryTypeDelete, <<>>, TableName, <<>>,
                               <<Filter(PKField, "=", Scalar("7"), "")>>, "", "", 0))

NextModel == InitModel \/ AddRelation \/ GetRecords \/ Insert \/ Update \/ ModelDelete

SpecModel == InitNewModel /\ [][NextModel]_vars

\* The SubResult relations of the model, in order, and the rows the parent
\* query of the last GetRecords returned.
SubRelations == Subresults(query.model.Relations)
ParentRows == last.lookups

\* The k-th child fetch carries the single filter ForeignKey = r[LocalKey]
\* and no limit, for row r and relation s in loop order.
FetchIsFor(k) ==
    LET S == Len(SubRelations)
        r == ((k - 1) \div S) + 1
        rel == SubRelations[((k - 1) % S) + 1]
        f == query.fetches[k]
    IN  /\ f.table = rel.Join.Foreign_table
        /\ f.limit = 0
        /\ Len(f.filters) = 1
        /\ f.filters[1].Field = rel.Join.ForeignKey
        /\ f.filters[1].Operator = "="
        /\ f.filters[1].Value = RowValue(r, rel.Join.LocalKey)
        /\ Occurrences(f.statement.q, " LIMIT ") = 0

\* FullResult relations are joined into the parent SELECT, SubResult ones
\* are not.
JoinsFullOnly ==
    Occurrences(query.statements[1].q, " JOIN ") = Len(Fullresults(query.model.Relations))

\* The rows of each child fetch are nested under the row they were fetched for.
Nested ==
    /\ Len(query.rows) = ParentRows
    /\ \A r \in DOMAIN query.rows :
          /\ Len(query.rows[r].Subresult) = Len(SubRelations) * last.ret
          /\ \A k \in DOMAIN query.rows[r].Subresult :
                \E j \in DOMAIN SubRelations :
                    /\ query.rows[r].Subresult[k].table = SubRelations[j].Join.Foreign_table
                    /\ query.rows[r].Subresult[k].of = RowValue(r, SubRelations[j].Join.LocalKey)

C29_FailFast ==
    (query.model.Fields = <<>> /\ last.op \in {"GetRecords", "Insert", "Update", "Delete"}) =>
        /\ last.err /\ last.path = "error"
        /\ query.statements = <<>>

\* What holds instead: the four operations compile their statement whether
\* or not Fields are populated.
CompilesWithoutFields ==
    last.op \in {"GetRecords", "Insert", "Update", "Delete"} =>
        /\ Len(query.statements) = 1
        /\ ~query.statements[1].panic

\* ------------------------------------------------ RateLimiter record invariant
\* C30: in every reachable state and for every record, BlockedUntil is the
\* zero value whenever the identifier is not blocked, and BlockedUntil is
\* non-zero whenever Count >= MaxAttempts, for every MaxAttempts >= 1.
C30_RecordInvariant ==
    \A x \in DOMAIN attempts[RL] :
        /\ ~IsBlocked(attempts[RL], x, now) => IsZero(attempts[RL][x].BlockedUntil)
        /\ attempts[RL][x].Count >= MaxAttempts[RL] => ~IsZero(attempts[RL][x].BlockedUntil)

\* What holds of every record: a blocked identifier has a non-zero
\* BlockedUntil, an unblocked one a zero or a past BlockedUntil, and from
\* MaxAttempts = 2 on Count >= MaxAttempts comes with a non-zero BlockedUntil.
RecordInvariantLazy ==
    \A x \in DOMAIN attempts[RL] :
        /\ IsBlocked(attempts[RL], x, now) => ~IsZero(attempts[RL][x].BlockedUntil)
        /\ ~IsBlocked(attempts[RL], x, now)
              => (IsZero(attempts[RL][x].BlockedUntil) \/ attempts[RL][x].BlockedUntil <= now)
        /\ (MaxAttempts[RL] >= 2 /\ attempts[RL][x].Count >= MaxAttempts[RL])
              => ~IsZero(attempts[RL][x].BlockedUntil)

\* The first half of C30 alone, violated for MaxAttempts >= 2 as well.
ZeroWhenNotBlockedFromTwo ==
    MaxAttempts[RL] >= 2 =>
        \A x \in DOMAIN attempts[RL] :
            ~IsBlocked(attempts[RL], x, now) => IsZero(attempts[RL][x].BlockedUntil)

\* ---------------------------------------------------- fixed block window
\* C31: while an identifier is blocked (now before BlockedUntil) further
\* RecordFailedAttempt calls for it do not change BlockedUntil: the block
\* ends BlockDuration after the attempt that triggered it.
C31_FixedBlockWindow ==
    [][ \A x \in Idents(RL) :
          (/\ IsBlocked(attempts[RL], x, now)
           /\ last'.op = "RecordFailedAttempt" /\ last'.id = x)
          => /\ x \in DOMAIN attempts'[RL]
             /\ attempts'[RL][x].BlockedUntil = attempts[RL][x].BlockedUntil
      ]_vars

\* What holds instead: a failed attempt recorded while blocked restarts the
\* window at the time of that attempt and never shortens it.
BlockWindowRestarts ==
    [][ \A x \in Idents(RL) :
          (/\ IsBlocked(attempts[RL], x, now)
           /\ last'.op = "RecordFailedAttempt" /\ last'.id = x)
          => /\ x \in DOMAIN attempts'[RL]
             /\ attempts'[RL][x].BlockedUntil = now + BlockDuration
             /\ attempts'[RL][x].BlockedUntil >= attempts[RL][x].BlockedUntil
      ]_vars

\* ------------------------------------------------- current-user snapshot
\* Two users, each able to log in.
InitSnapshot ==
    /\ now = 1
    /\ attempts = [l \in Limiters |-> EmptyMap]
    /\ MaxAttempts = [l \in Limiters |-> 0]
    /\ db = [id \in {1, 2} |-> Row(IF id = 1 THEN "alice" ELSE "eve", "pwA", TRUE)]
    /\ sessions = [s \in Sessions |-> NoToken]
    /\ streak = [l \in Limiters |-> [x \in Idents(l) |-> 0]]
    /\ last = NoEvent
    /\ calls = [p \in Procs |-> Idle]
    /\ UserData = NoUserData
    /\ query = NoQuery

\* authAction of goroutine p, success branch up to Session.Put: the row of
\* username was found and the password verified; the row gets a new token
\* and expiry, the session the token. id and tmp keep rr[0]'s user and token.
LoginUpdate(p, s, username) ==
    /\ calls[p].pc = "idle"
    /\ GetRecordsByUsername(db, username) # {}
    /\ LET token == TokenGenerator(db, sessions)
           userID == FirstRow(GetRecordsByUsername(db, username))
       IN  /\ db' = UpdateToken(db, userID, token, GetExpirationFromNow(now))
           /\ sessions' = [sessions EXCEPT ![s] = token]
           /\ calls' = [calls EXCEPT ![p] = [pc |-> "assign", op |-> "authAction",
                                             id |-> username, tmp |-> token, torn |-> FALSE]]
    /\ UNCHANGED <<now, attempts, MaxAttempts, streak, last, query, UserData>>

\* Auth.UserData = rr[0], the row carrying the new token and the password hash.
SnapshotAssign(p) ==
    [Username |-> <<calls[p].id>>, HashCode |-> <<calls[p].tmp>>,
     Password |-> <<db[FirstRow(GetRecordsByUsername(db, calls[p].id))].Password>>]

Assign(p) ==
    /\ calls[p].pc = "assign"
    /\ UserData' = SnapshotAssign(p)
    /\ calls' = [calls EXCEPT ![p].pc = "blankHash"]
    /\ UNCHANGED <<now, attempts, MaxAttempts, db, sessions, streak, last, query>>

\* Auth.UserData.Values[index of HashCodeFieldName] = ""
BlankHash(p) ==
    /\ calls[p].pc = "blankHash"
    /\ UserData' = [UserData EXCEPT !.HashCode = Blank]
    /\ calls' = [calls EXCEPT ![p].pc = "blankPassword"]
    /\ UNCHANGED <<now, attempts, MaxAttempts, db, sessions, streak, last, query>>

\* Auth.UserData.Values[index of PasswordFieldName] = ""; the handler ends.
BlankPassword(p) ==
    /\ calls[p].pc = "blankPassword"
    /\ UserData' = [UserData EXCEPT !.Password = Blank]
    /\ calls' = [calls EXCEPT ![p] = [Idle EXCEPT !.op = "authAction", !.id = calls[p].id]]
    /\ last' = [NoEvent EXCEPT !.op = "authAction", !.user = calls[p].id]
    /\ UNCHANGED <<now, attempts, MaxAttempts, db, sessions, streak, query>>

Exposes(snapshot) == snapshot.HashCode # Blank \/ snapshot.Password # Blank

\* viewAction of goroutine p: td.Auth = Auth copies the snapshot as it is;
\* torn records that the copy carries a token or a password hash.
ReadSnapshot(p) ==
    /\ calls[p].pc = "idle"
    /\ calls' = [calls EXCEPT ![p] = [Idle EXCEPT !.op = "viewAction",
                                                  !.torn = Exposes(UserData)]]
    /\ UNCHANGED <<now, attempts, MaxAttempts, db, sessions, streak, last, query, UserData>>

NextSnapshot ==
    \E p \in Procs :
        \/ \E s \in Sessions, username \in Usernames : LoginUpdate(p, s, username)
        \/ Assign(p)
        \/ BlankHash(p)
        \/ BlankPassword(p)
        \/ ReadSnapshot(p)

SpecSnapshot == InitSnapshot /\ [][NextSnapshot]_vars

\* C32: the process-wide Auth.UserData snapshot never exposes a non-blank
\* password hash or session token: in every state that a concurrently
\* running request handler can observe its hash-code and password values are
\* blank; successive logins overwrite it with the most recent user's row.
C32_SnapshotScrubbed ==
    /\ ~Exposes(UserData)
    /\ \A p \in Procs : ~calls[p].torn
    /\ (last.op = "authAction" /\ \A p \in Procs : calls[p].pc = "idle")
            => UserData.Username = <<last.user>>

\* What holds: the snapshot is scrubbed whenever no login stands between the
\* assignment and the second blanking, and then names the user whose login
\* finished last.
SnapshotScrubbedAtRest ==
    (\A p \in Procs : calls[p].pc \notin {"blankHash", "blankPassword"}) =>
        /\ ~Exposes(UserData)
        /\ (last.op = "authAction" /\ \A p \in Procs : calls[p].pc = "idle")
                => UserData.Username \in {<<u>> : u \in Usernames}

\* ------------------------------------------------ the two compilers agree
NoInFilter(i) == \A k \in DOMAIN i.wheres : i.wheres[k].Operator # "IN"

\* The statement carries the connective of the intent's first filter.
FirstLogicEmitted(i, q) ==
    /\ i.wheres # <<>>
    /\ i.wheres[1].Logic # ""
    /\ Contains(q, <<" WHERE ", " ", i.wheres[1].Logic, " ">>)

Comparable(i) ==
    /\ i.queryType \in {QueryTypeSelect, QueryTypeInsert, QueryTypeDelete}
    /\ NoInFilter(i)
    /\ i.offset = 0

\* C33: for every SELECT, INSERT and DELETE intent with no IN filter and
\* offset 0, BuildQueryExtended returns the same statement text and the same
\* parameter list as BuildQuery, and in both the logic string of a filter is
\* emitted before its predicate only for the filters after the first.
C33_CompilerEquivalence ==
    Comparable(query.intent) =>
        /\ query.ext.q = query.std.q
        /\ query.ext.values = query.std.values
        /\ ~FirstLogicEmitted(query.intent, query.std.q)
        /\ ~FirstLogicEmitted(query.intent, query.ext.q)

\* What holds: the parameter lists always agree, BuildQueryExtended never
\* emits the first filter's connective, and the texts agree when the first
\* filter has no connective and an INSERT has a field.
CompilerEquivalenceBlankFirstLogic ==
    Comparable(query.intent) =>
        /\ query.ext.values = query.std.values
        /\ ~FirstLogicEmitted(query.intent, query.ext.q)
        /\ ( /\ (query.intent.wheres # <<>> => query.intent.wheres[1].Logic = "")
             /\ (query.intent.queryType = QueryTypeInsert => query.intent.fields # <<>>) )
           => query.ext.q = query.std.q

\* ------------------------------------------------------- LIMIT and OFFSET
\* The first position of piece in q; 0 when q has no such piece.
PositionOf(q, piece) ==
    IF Occurrences(q, piece) = 0 THEN 0
    ELSE CHOOSE k \in DOMAIN q : q[k] = piece /\ \A m \in 1..(k - 1) : q[m] # piece

\* Every clause of q that is there stands behind GROUP BY and ORDER BY, and
\* LIMIT stands before OFFSET.
PagingOrder(i, q) ==
    /\ \A c \in {" LIMIT ", " OFFSET "}, g \in {i.group, i.order} :
          (Occurrences(q, c) > 0 /\ g # "") => PositionOf(q, g) < PositionOf(q, c)
    /\ (Occurrences(q, " LIMIT ") > 0 /\ Occurrences(q, " OFFSET ") > 0)
          => PositionOf(q, " LIMIT ") < PositionOf(q, " OFFSET ")

\* C34: a SELECT compiled by BuildQueryExtended contains " LIMIT n" exactly
\* when the limit n is positive, and contains " OFFSET k" whenever an offset
\* k > 0 was set, for any limit, with LIMIT before OFFSET and both after
\* GROUP BY and ORDER BY.
C34_LimitOffset ==
    query.intent.queryType = QueryTypeSelect =>
        LET i == query.intent
            q == query.ext.q
        IN  /\ (i.limit > 0) <=> (Occurrences(q, " LIMIT ") > 0)
            /\ i.limit > 0 => Contains(q, <<" LIMIT ", FormatInt(i.limit)>>)
            /\ i.offset > 0 => Contains(q, <<" OFFSET ", FormatInt(i.offset)>>)
            /\ PagingOrder(i, q)

\* What holds: OFFSET is there exactly when both the offset and the limit
\* are positive.
OffsetOnlyWithLimit ==
    query.intent.queryType = QueryTypeSelect =>
        LET i == query.intent
            q == query.ext.q
        IN  /\ (i.limit > 0) <=> (Occurrences(q, " LIMIT ") > 0)
            /\ i.limit > 0 => Contains(q, <<" LIMIT ", FormatInt(i.limit)>>)
            /\ (i.offset > 0 /\ i.limit > 0) <=> (Occurrences(q, " OFFSET ") > 0)
            /\ (i.offset > 0 /\ i.limit > 0)
                  => Contains(q, <<" OFFSET ", FormatInt(i.offset)>>)
            /\ PagingOrder(i, q)

\* ------------------------------------------------- protected CRUD routes
\* The table of the route's Model: primary key -> the value of its field.
\* query keeps the table, the route option, the statement the last handler
\* issued and whether it rendered records.
FormValues == {"x", "y"}
Keys == 1..MaxRows
\* rObj.params without the key parameter.
NoKey == 0
NoTable ==
    [intent |-> <<>>, table |-> EmptyMap, needsAuth |-> FALSE, issued |-> "",
     rendered |-> FALSE]

TableInsert(table, v) ==
    LET id == CHOOSE k \in Keys : k \notin DOMAIN table /\ \A m \in 1..(k - 1) : m \in DOMAIN table
    IN  [k \in DOMAIN table \cup {id} |-> IF k = id THEN v ELSE table[k]]
TableUpdate(table, id, v) == IF id \in DOMAIN table THEN [table EXCEPT ![id] = v] ELSE table
TableDelete(table, id) == [k \in DOMAIN table \ {id} |-> table[k]]

\* The "Auth process" block at the head of a handler: IsSessionExpired is
\* asked when the route needs authentication and a session key is set.
AuthProcess(dbv, token, t, needsAuth, e1, u1) ==
    IF needsAuth /\ SessionKey # ""
    THEN IsSessionExpired(dbv, token, t, e1, u1)
    ELSE [expired |-> FALSE, err |-> FALSE, db |-> dbv]

\* What is left of a handler after its Auth process: an error of
\* IsSessionExpired ends it, an expired session adds a redirect and nothing
\* else; then the statement is issued unless the key parameter is missing.
AfterAuthProcess(r1, table, statement, table2, hasKey, writeErr) ==
    IF r1.err
    THEN [db |-> r1.db, table |-> table, expired |-> r1.expired, redirected |-> FALSE,
          err |-> TRUE, issued |-> "", path |-> "authErr"]
    ELSE IF ~hasKey
    THEN [db |-> r1.db, table |-> table, expired |-> r1.expired, redirected |-> r1.expired,
          err |-> TRUE, issued |-> "", path |-> "noKey"]
    ELSE [db |-> r1.db, table |-> IF writeErr THEN table ELSE table2,
          expired |-> r1.expired, redirected |-> r1.expired,
          err |-> writeErr, issued |-> statement,
          path |-> IF writeErr THEN "writeErr" ELSE "done"]

\* Controller.createAction, updateAction, deleteAction up to the statement.
createAction(dbv, table, token, t, needsAuth, v, e1, u1, writeErr) ==
    AfterAuthProcess(AuthProcess(dbv, token, t, needsAuth, e1, u1), table,
                     "Insert", TableInsert(table, v), TRUE, writeErr)
updateAction(dbv, table, token, t, needsAuth, id, v, e1, u1, writeErr) ==
    AfterAuthProcess(AuthProcess(dbv, token, t, needsAuth, e1, u1), table,
                     "Update", TableUpdate(table, id, v), id # NoKey, writeErr)
deleteAction(dbv, table, token, t, needsAuth, id, e1, u1, writeErr) ==
    AfterAuthProcess(AuthProcess(dbv, token, t, needsAuth, e1, u1), table,
                     "Delete", TableDelete(table, id), id # NoKey, writeErr)

InitCrud ==
    /\ now = 1
    /\ attempts = [l \in Limiters |-> EmptyMap]
    /\ MaxAttempts = [l \in Limiters |-> 0]
    /\ db = [id \in {1} |-> Row("alice", "pwA", TRUE)]
    /\ sessions = [s \in Sessions |-> NoToken]
    /\ streak = [l \in Limiters |-> [x \in Idents(l) |-> 0]]
    /\ last = NoEvent
    /\ calls = [p \in Procs |-> Idle]
    /\ UserData = NoUserData
    /\ query = NoTable

\* The end of a handler of a CRUD route.
CommitCrud(db2, q2, ev) ==
    /\ db' = db2
    /\ query' = q2
    /\ last' = ev
    /\ UNCHANGED <<now, attempts, MaxAttempts, sessions, streak, calls, UserData>>

\* A correct login with session s: the success branch of authAction.
LoginCrud(s) ==
    /\ authAction(s, "ip1", "alice", "pwA")
    /\ last'.path = "success"

\* A POST to a CRUD route with session s. With an empty cOptions.next the
\* handler ends in viewAction, otherwise in a redirect to next.
Post(s, op, needsAuth) ==
    \E id \in Keys \cup {NoKey}, v \in FormValues,
       e1 \in BOOLEAN, u1 \in BOOLEAN, writeErr \in BOOLEAN, hasNext \in BOOLEAN :
        LET o == CASE op = "create" ->
                        createAction(db, query.table, sessions[s], now, needsAuth,
                                     v, e1, u1, writeErr)
                   [] op = "update" ->
                        updateAction(db, query.table, sessions[s], now, needsAuth,
                                     id, v, e1, u1, writeErr)
                   [] op = "delete" ->
                        deleteAction(db, query.table, sessions[s], now, needsAuth,
                                     id, e1, u1, writeErr)
            views == IF o.path = "done" /\ ~hasNext
                     THEN ViewOutcomes(o.db, sessions[s], now, needsAuth)
                     ELSE {[db |-> o.db, rendered |-> FALSE]}
        IN  /\ op = "create" => Cardinality(DOMAIN query.table) < MaxRows
            /\ \E view \in views :
                  CommitCrud(view.db,
                             [NoTable EXCEPT !.table = o.table, !.needsAuth = needsAuth,
                                             !.issued = o.issued,
                                             !.rendered = view.rendered],
                             [NoEvent EXCEPT !.op = op, !.s = s, !.path = o.path,
                                             !.expired = o.expired, !.err = o.err])

\* A GET of the route's records with session s.
GetRecordsPage(s, needsAuth) ==
    \E view \in ViewOutcomes(db, sessions[s], now, needsAuth) :
        CommitCrud(view.db,
                   [NoTable EXCEPT !.table = query.table, !.needsAuth = needsAuth,
                                   !.rendered = view.rendered],
                   [NoEvent EXCEPT !.op = "view", !.s = s,
                                   !.path = IF view.err THEN "authErr" ELSE "done",
                                   !.expired = view.expired, !.err = view.err])

CrudOps == {"create", "update", "delete"}

NextCrud ==
    \/ Tick
    \/ \E s \in Sessions : LoginCrud(s)
    \/ \E s \in Sessions, op \in CrudOps, needsAuth \in BOOLEAN : Post(s, op, needsAuth)
    \/ \E s \in Sessions, needsAuth \in BOOLEAN : GetRecordsPage(s, needsAuth)

SpecCrud == InitCrud /\ [][NextCrud]_vars

\* C35: on a route registered with NeedsAuth, whenever IsSessionExpired
\* returns true the handler only redirects to the login URL: createAction,
\* updateAction and deleteAction perform no Insert, Update or Delete, and
\* viewAction fetches and renders no records.
C35_ExpiredSessionStops ==
    [][ (/\ last'.op \in CrudOps \cup {"view"}
         /\ query'.needsAuth
         /\ last'.expired)
        => /\ query'.issued = ""
           /\ query'.table = query.table
           /\ ~query'.rendered
      ]_vars

\* What holds: only an error of IsSessionExpired stops a handler before its
\* statement; an expired session without an error stops none of them.
OnlyAuthErrorStops ==
    [][ (last'.op \in CrudOps \cup {"view"} /\ query'.needsAuth /\ last'.expired)
        => /\ last'.path = "authErr" => (query'.issued = "" /\ ~query'.rendered
                                         /\ query'.table = query.table)
           /\ (last'.op = "view" /\ last'.path # "authErr") => query'.rendered
           /\ (last'.op = "create" /\ last'.path # "authErr")
                 => last'.path \in {"done", "writeErr"} /\ query'.issued = "Insert"
      ]_vars

\* ------------------------------------------- two browsers, one credentials row
Browsers == {"s1", "s2"}

InitBrowsers ==
    /\ now = 1
    /\ attempts = [l \in Limiters |-> EmptyMap]
    /\ MaxAttempts = [l \in Limiters |-> 0]
    /\ db = [id \in {1} |-> Row("alice", "pwA", TRUE)]
    /\ sessions = [s \in Browsers |-> NoToken]
    /\ streak = [l \in Limiters |-> [x \in Idents(l) |-> 0]]
    /\ last = NoEvent
    /\ calls = [p \in Procs |-> Idle]
    /\ UserData = NoUserData
    /\ query = NoQuery

NextBrowsers ==
    \/ Tick
    \/ \E s \in Browsers, ip \in IPs, username \in FormUsernames, password \in FormPasswords :
            authAction(s, ip, username, password)
    \/ \E s \in Browsers, needsAuth \in BOOLEAN : GetPage(s, needsAuth)
    \/ \E s \in Browsers : CallKillAuthSession(s)

SpecBrowsers == InitBrowsers /\ [][NextBrowsers]_vars

\* IsSessionExpired would accept session s for row id at time t.
Accepted(dbv, sess, s, id, t) ==
    /\ id \in GetRecordsByToken(dbv, sess[s])
    /\ ~IsSessionExpired(dbv, sess[s], t, FALSE, FALSE).expired

\* C36: at most one session token is accepted for a credentials row; a second
\* successful login of the same user replaces the row's token, so
\* IsSessionExpired for a session that still holds the earlier token returns
\* true.
C36_OneSessionPerRow ==
    /\ [](\A id \in DOMAIN db :
            Cardinality({s \in Browsers : Accepted(db, sessions, s, id, now)}) <= 1)
    /\ [][ (last'.op = "auth" /\ last'.path = "success")
           => \A s \in Browsers \ {last'.s} :
                 sessions[s] # NoToken
                    => IsSessionExpired(db', sessions'[s], now', FALSE, FALSE).expired
         ]_vars

\* A second login has just replaced the token that another browser holds and
\* that was accepted before.
C36_Witness ==
    /\ last.op = "auth" /\ last.path = "success"
    /\ \E s \in Browsers \ {last.s} :
          sessions[s] # NoToken /\ GetRecordsByToken(db, sessions[s]) = {}
    /\ \E id \in DOMAIN db : Accepted(db, sessions, last.s, id, now)

\* The row of session s has an expiry that lies before t.
ExpiredByTime(dbv, sess, s, t) ==
    /\ sess[s] # NoToken
    /\ \E id \in GetRecordsByToken(dbv, sess[s]) : After(t, dbv[id].ExpTime)

\* C37: once a session is expired because its row's expiry lies before now,
\* every later IsSessionExpired call with the same token returns true, and no
\* check revives it, until a new successful login sets a new expiry.
C37_ExpiryAbsorbing ==
    [][ \A s \in Browsers :
          (/\ ExpiredByTime(db, sessions, s, now)
           /\ ~(last'.op = "auth" /\ last'.path = "success"))
          => /\ sessions'[s] = sessions[s]
             /\ IsSessionExpired(db', sessions'[s], now', FALSE, FALSE).expired
             /\ (last'.op = "view" /\ last'.s = s /\ last'.path = "protected")
                   => last'.expired
      ]_vars

\* A protected page was asked for with a session whose row had run out, and
\* the answer was "expired".
C37_Witness ==
    /\ last.op = "view" /\ last.path = "protected" /\ last.expired /\ ~last.err
    /\ ExpiredByTime(db, sessions, last.s, now)

\* The session store of browser s holds a token that no row has.
StaleToken(dbv, sess, s) ==
    sess[s] # NoToken /\ {id \in DOMAIN dbv : dbv[id].HashCode = sess[s]} = {}

\* C38: when the session store holds a token that matches no credentials row
\* (a newer login replaced it), KillAuthSession returns without crashing and
\* without updating any row.
C38_StaleKill ==
    [][ (last'.op = "kill" /\ StaleToken(db, sessions, last'.s))
        => /\ last'.path # "panic"
           /\ db' = db
      ]_vars

\* What holds: such a call updates no row, and it returns only when the lookup
\* fails; otherwise it panics on the empty result.
StaleKillPanics ==
    [][ (last'.op = "kill" /\ StaleToken(db, sessions, last'.s))
        => /\ db' = db
           /\ last'.path \in {"lookupErr", "panic"}
      ]_vars

\* --------------------------------------------- concurrent login requests
\* Every goroutine handles one login request with a wrong password, all
\* within one instant of the clock; only the username limiter is configured.
\* query counts the credential lookups made for each username.
NoLookups == [intent |-> <<>>, lookups |-> [u \in Usernames |-> 0]]

InitRace ==
    /\ now = 1
    /\ attempts = [l \in Limiters |-> EmptyMap]
    /\ \E m \in 1..MaxM : MaxAttempts = [l \in Limiters |-> IF l = "user" THEN m ELSE 0]
    /\ db = [id \in {1} |-> Row("alice", "pwA", TRUE)]
    /\ sessions = [s \in Sessions |-> NoToken]
    /\ streak = [l \in Limiters |-> [x \in Idents(l) |-> 0]]
    /\ last = NoEvent
    /\ calls = [p \in Procs |-> Idle]
    /\ UserData = NoUserData
    /\ query = NoLookups

RaceUnchanged == UNCHANGED <<now, MaxAttempts, db, sessions, streak, UserData>>

\* c.UserRateLimiter.IsBlocked(username): a blocked username ends the request.
CheckUserBlocked(p, username) ==
    /\ calls[p].pc = "idle"
    /\ calls[p].op = ""
    /\ LET blocked == MaxAttempts["user"] > 0 /\ IsBlocked(attempts["user"], username, now)
       IN  /\ calls' = [calls EXCEPT ![p] = [Idle EXCEPT
                            !.pc = IF blocked THEN "idle" ELSE "lookup",
                            !.op = "authAction", !.id = username]]
           /\ last' = [NoEvent EXCEPT !.op = "IsBlocked", !.id = username,
                                      !.ret = IF blocked THEN 1 ELSE 0]
    /\ UNCHANGED <<attempts, query>>
    /\ RaceUnchanged

\* m.GetRecords(f, 1) and CheckPasswordHash with the wrong password.
LookupCredentials(p) ==
    /\ calls[p].pc = "lookup"
    /\ query' = [query EXCEPT !.lookups[calls[p].id] = @ + 1]
    /\ calls' = [calls EXCEPT ![p].pc = "record"]
    /\ last' = [NoEvent EXCEPT !.op = "lookup", !.id = calls[p].id]
    /\ UNCHANGED attempts
    /\ RaceUnchanged

\* The failure branch: c.UserRateLimiter.RecordFailedAttempt(username).
RecordFailure(p) ==
    /\ calls[p].pc = "record"
    /\ attempts' = RecordIfConfigured(attempts, "user", calls[p].id, now)
    /\ calls' = [calls EXCEPT ![p].pc = "idle"]
    /\ last' = [NoEvent EXCEPT !.op = "RecordFailedAttempt", !.id = calls[p].id]
    /\ UNCHANGED query
    /\ RaceUnchanged

NextRace ==
    \E p \in Procs :
        \/ \E username \in Usernames : CheckUserBlocked(p, username)
        \/ LookupCredentials(p)
        \/ RecordFailure(p)

SpecRace == InitRace /\ [][NextRace]_vars

\* C39: with a username limiter of MaxAttempts M, in any interleaving of
\* concurrent authAction requests with wrong passwords for one username, at
\* most M credential lookups are made for that username before its block
\* expires or is reset.
C39_BoundedGuesses ==
    \A u \in Usernames : query.lookups[u] <= MaxAttempts["user"]

\* What holds: a request that asks IsBlocked once the username is blocked
\* makes no lookup, and there are no more lookups than requests that passed
\* the check.
LookupsOnlyByPassedChecks ==
    [][ /\ \A u \in Usernames :
              (last'.op = "IsBlocked" /\ last'.id = u /\ IsBlocked(attempts["user"], u, now))
              => \A p \in Procs : calls'[p].pc = "lookup" => calls[p].pc = "lookup"
        /\ \A u \in Usernames : query'.lookups[u] <= Cardinality(Procs)
      ]_vars

\* ------------------------------------------------ the sweep is transparent
\* Two limiters made by the same NewRateLimiter call get the same calls at the
\* same times; the ticker of the first fires, the ticker of the second never
\* does. The second one's map is kept in the other slot of attempts.
Unswept == "ip"

InitTwin ==
    /\ now = 1
    /\ attempts = [l \in Limiters |-> EmptyMap]
    /\ \E m \in 1..MaxM : MaxAttempts = [l \in Limiters |-> m]
    /\ db = EmptyMap
    /\ sessions = [s \in Sessions |-> NoToken]
    /\ streak = [l \in Limiters |-> [x \in Idents(l) |-> 0]]
    /\ last = NoEvent
    /\ calls = [p \in Procs |-> Idle]
    /\ UserData = NoUserData
    /\ query = NoQuery

TwinUnchanged == UNCHANGED <<now, MaxAttempts, db, sessions, streak, calls, query, UserData>>

TwinRecordFailedAttempt(id) ==
    /\ \A l \in Limiters : CountOf(attempts[l], id) < MaxCount
    /\ attempts' = [l \in Limiters |->
                        RecordFailedAttempt(attempts[l], id, now, MaxAttempts[l])]
    /\ last' = [NoEvent EXCEPT !.op = "RecordFailedAttempt", !.id = id]
    /\ TwinUnchanged

TwinResetAttempts(id) ==
    /\ attempts' = [l \in Limiters |-> ResetAttempts(attempts[l], id)]
    /\ last' = [NoEvent EXCEPT !.op = "ResetAttempts", !.id = id]
    /\ TwinUnchanged

\* The ticker of the first limiter fires.
Sweep ==
    /\ attempts' = [attempts EXCEPT ![RL] = cleanup(attempts[RL], now)]
    /\ last' = [NoEvent EXCEPT !.op = "cleanup"]
    /\ TwinUnchanged

NextTwin ==
    \/ TickRL
    \/ \E id \in Idents(RL) : TwinRecordFailedAttempt(id)
    \/ \E id \in Idents(RL) : TwinResetAttempts(id)
    \/ Sweep

SpecTwin == InitTwin /\ [][NextTwin]_vars

\* C40: the background cleanup never removes the record of a currently
\* blocked identifier and never changes the answers of IsBlocked: after every
\* sequence of RecordFailedAttempt and ResetAttempts calls and time steps
\* IsBlocked answers the same, at every time, whether or not cleanup ran in
\* between.
C40_SweepTransparency ==
    /\ [](\A x \in Idents(RL) :
            IsBlocked(attempts[RL], x, now) <=> IsBlocked(attempts[Unswept], x, now))
    /\ [][ last'.op = "cleanup"
           => \A x \in Idents(RL) :
                 IsBlocked(attempts[RL], x, now)
                    => (x \in DOMAIN attempts'[RL] /\ attempts'[RL][x] = attempts[RL][x])
         ]_vars

\* The sweep has removed a record that the limiter without a sweep still has,
\* while another identifier is blocked.
C40_Witness ==
    /\ last.op = "cleanup"
    /\ \E x \in Idents(RL) : x \in DOMAIN attempts[Unswept] /\ x \notin DOMAIN attempts[RL]
    /\ \E y \in Idents(RL) : IsBlocked(attempts[RL], y, now)
====
